---- MODULE Spec2Model ----
(***************************************************************************)
(* SurgeBox sequencing core: the SequencerEngine transport (play / stop /  *)
(* seek / per-block process with loop wrap), the Pattern start-range query *)
(* it triggers from, and the control-thread / audio-thread interleaving of *)
(* the transport.                                                          *)
(*                                                                         *)
(* Musical time is kept in integer ticks (TicksPerBeat ticks per beat);    *)
(* every double of the source that holds a beat position holds a tick      *)
(* count here.  The sample rate is chosen so that beatsPerSample_ is a    *)
(* whole number of ticks.                                                  *)
(***************************************************************************)
EXTENDS Integers, Sequences, FiniteSets, TLC

VARIABLES
    project,        \* GrooveboxProject: tempo and the four VoiceState
    project_,       \* SequencerEngine::project_ != nullptr
    synths_,        \* SequencerEngine::synths_[v] != nullptr
    playing_,       \* std::atomic<bool>
    currentBeat_,   \* std::atomic<double>, in ticks
    activeNotes_,   \* std::vector<ActiveNote>
    midiBuffers,    \* the events put in the per-voice buffers of the block
    synthCalls,     \* the releaseNote calls made on the synths
    lastOp,         \* the last operation and its arguments
    audio,          \* audio thread: position and locals inside process()
    ui,             \* control thread: position and locals inside stop()/seek
    query,          \* inputs and results of the range-query specification
    disk,           \* the project file at the path saved to and loaded from
    activeVoice_,   \* SurgeBoxEngine::activeVoice_
    voiceChanged,   \* the onVoiceChanged callbacks made by the last call
    initialized_,   \* SurgeBoxEngine::initialized_
    onVoiceChanged, \* SurgeBoxEngine::onVoiceChanged holds a function
    onPlayheadMoved,\* SurgeBoxEngine::onPlayheadMoved holds a function
    output          \* what the call did to outputL / outputR of process()

vars == <<project, project_, synths_, playing_, currentBeat_, activeNotes_,
          midiBuffers, synthCalls, lastOp, audio, ui, query,
          disk, activeVoice_, voiceChanged,
          initialized_, onVoiceChanged, onPlayheadMoved, output>>

\* the engine's lifecycle flag and its two observers
hostVars == <<initialized_, onVoiceChanged, onPlayheadMoved>>

\* the state outside the SequencerEngine and the patterns
engineVars == <<disk, activeVoice_, voiceChanged, hostVars>>

----------------------------------------------------------------------------
(* Program constants and model bounds *)

NUM_VOICES == 4

NUM_GLOBAL_FX == 4

PROJECT_FORMAT_VERSION == 1

BeatsPerBar == 4

TicksPerBeat == 10

MaxBars == 2

\* blocks the audio thread runs in the two-thread specification
MaxBlocks == 3

Voices == 0 .. (NUM_VOICES - 1)

\* samples per second: one sample lasts one tick at 60 BPM
SampleRate == TicksPerBeat

Tempos == {60, 120}

BlockSizes == {2, 4}

Bar == BeatsPerBar * TicksPerBeat

SeekTargets == {-2, 0, Bar - 2, 2 * Bar + Bar \div 4}

----------------------------------------------------------------------------
(* Numeric helpers of the C++ code *)

\* the global beat used as the pattern position
GlobalPosition(a, b) == a

\* std::fmod for a positive divisor: the result has the sign of the dividend
Fmod(a, b) == IF a >= 0 THEN a % b ELSE -((-a) % b)

\* static_cast<int>(a / b) for a positive b: truncation toward zero
TruncDiv(a, b) == IF a >= 0 THEN a \div b ELSE -((-a) \div b)

\* the sample position left as computed
Unclamped(x, lo, hi) == x

\* std::clamp
Clamp(x, lo, hi) == IF x < lo THEN lo ELSE IF hi < x THEN hi ELSE x

\* beatsPerSample_ = (tempo / 60) / sampleRate, in ticks per sample
BeatsPerSample(tempo, sampleRate) == (tempo * TicksPerBeat) \div (60 * sampleRate)

----------------------------------------------------------------------------
(* Data model *)

MIDINote(start, dur, p, vel) ==
    [startBeat |-> start, duration |-> dur, pitch |-> p, velocity |-> vel]

ActiveNote(v, p, e) == [voiceIndex |-> v, pitch |-> p, endBeat |-> e]

NoteOn(p, vel, pos) == [type |-> "on", pitch |-> p, velocity |-> vel, pos |-> pos]

NoteOff(p, pos) == [type |-> "off", pitch |-> p, velocity |-> 0, pos |-> pos]

EmptyBuffers == [v \in Voices |-> <<>>]

AllVoices == [v \in Voices |-> TRUE]

NoVoices == [v \in Voices |-> FALSE]

OnlyVoice(w) == [v \in Voices |-> v = w]

AllButVoice(w) == [v \in Voices |-> v # w]

\* VoiceState() with the name and bars that reset() assigns; the floats of
\* the mixer are kept in thousandths
ResetVoice(i) ==
    [name |-> <<"Voice 1", "Voice 2", "Voice 3", "Voice 4">>[i + 1], patchData |-> <<>>,
     pattern |-> [notes |-> <<>>, bars |-> 4, swing |-> 0],
     volume |-> 1000, pan |-> 0, sendA |-> 0, sendB |-> 0,
     mute |-> FALSE, solo |-> FALSE]

\* a slot that is constructed disabled
SlotDisabled == [type |-> 0, enabled |-> FALSE]

\* GlobalFXSlot(), without its parameter array
ResetSlot == [type |-> 0, enabled |-> TRUE]

\* GrooveboxProject::reset when getCurrentTimestamp() returns now
Reset(now) ==
    [tempo |-> 120, loopBars |-> 4, swing |-> 0, masterVolume |-> 800,
     voices |-> [v \in Voices |-> ResetVoice(v)],
     globalFX |-> [i \in 0 .. (NUM_GLOBAL_FX - 1) |-> ResetSlot],
     projectName |-> "Untitled", author |-> "", comment |-> "", tags |-> <<>>,
     createdDate_ |-> now, modifiedDate_ |-> now]

\* the notes of the patterns the transport plays; each list is sorted
InitNotes ==
    [v \in Voices |->
        CASE v = 0 -> << MIDINote(0, TicksPerBeat, 60, 100),
                         MIDINote(Bar - 1, TicksPerBeat \div 2, 62, 100) >>
          [] v = 1 -> << MIDINote(TicksPerBeat \div 2, TicksPerBeat, 60, 90) >>
          [] OTHER -> << >>]

InitVoice(v) ==
    [ResetVoice(v) EXCEPT !.pattern = [notes |-> InitNotes[v], bars |-> 1, swing |-> 0]]

InitProject == [Reset(0) EXCEPT !.voices = [v \in Voices |-> InitVoice(v)]]

\* no file at the path: std::ifstream fails to open
NoFile == [exists |-> FALSE]

\* outputL and outputR as a call other than process() leaves them: untouched
NoOutput == [numSamples |-> 0, cleared |-> FALSE, mix |-> <<>>, masterVolume |-> 0,
             playhead |-> <<>>]

NoOp == [name |-> "init", arg |-> 0, present |-> AllVoices, wrapped |-> FALSE,
         overlap |-> FALSE]

Op(n, a) == [NoOp EXCEPT !.name = n, !.arg = a]

Idle == [pc |-> "idle"]

----------------------------------------------------------------------------
(* Pattern queries *)

\* Pattern::getNotesStartingInRange with the test `note.startBeat <= endBeat`
GetNotesStartingThroughEnd(notes, startBeat, endBeat) ==
    SelectSeq(notes, LAMBDA n : n.startBeat >= startBeat /\ n.startBeat <= endBeat)

\* Pattern::getNotesStartingInRange
GetNotesStartingInRange(notes, startBeat, endBeat) ==
    SelectSeq(notes, LAMBDA n : n.startBeat >= startBeat /\ n.startBeat < endBeat)

\* MIDINote::operator<
NoteLess(x, y) ==
    IF x.startBeat # y.startBeat THEN x.startBeat < y.startBeat ELSE x.pitch < y.pitch

\* sortNotes that leaves the notes in the order it finds them
KeepOrder(notes) == notes

\* Pattern::sortNotes: std::sort with operator<
RECURSIVE SortNotes(_)
SortNotes(notes) ==
    IF notes = <<>>
    THEN <<>>
    ELSE LET n    == notes[Len(notes)]
             rest == SortNotes(SubSeq(notes, 1, Len(notes) - 1))
             k    == Cardinality({i \in 1 .. Len(rest) : ~NoteLess(n, rest[i])})
         IN  SubSeq(rest, 1, k) \o <<n>> \o SubSeq(rest, k + 1, Len(rest))

\* PatternModel::createNoteTree: the four properties of a Note child
NoteTree(start, dur, p, vel) == <<start, dur, p, vel>>

\* PatternModel::loadFromPattern: one child per note, in the pattern's order
LoadFromPattern(notes) ==
    [i \in 1 .. Len(notes) |->
        NoteTree(notes[i].startBeat, notes[i].duration, notes[i].pitch, notes[i].velocity)]

\* PatternModel::saveToPattern: pitch and velocity go through uint8_t
SaveToPattern(tree) ==
    SortNotes([i \in 1 .. Len(tree) |->
                  MIDINote(tree[i][1], tree[i][2], tree[i][3] % 256, tree[i][4] % 256)])

\* PatternModel::getNotesStartingInRange: tuples of the children's properties
ModelGetNotesStartingInRange(tree, startBeat, endBeat) ==
    SelectSeq(tree, LAMBDA t : t[1] >= startBeat /\ t[1] < endBeat)

CountIn(seq, x) == Cardinality({i \in 1 .. Len(seq) : seq[i] = x})

ElementsOf(seq) == {seq[i] : i \in 1 .. Len(seq)}

\* PatternModel::sortNotes orders the children by start beat alone, with
\* std::sort: children with equal starts may end in any order.  The set of
\* the orders it can leave: one of the earliest children first, then the rest
RECURSIVE SortedTrees(_)
SortedTrees(tree) ==
    IF tree = <<>>
    THEN {<<>>}
    ELSE LET earliest == {i \in 1 .. Len(tree) :
                             \A j \in 1 .. Len(tree) : tree[i][1] <= tree[j][1]}
             Without(i) == SubSeq(tree, 1, i - 1) \o SubSeq(tree, i + 1, Len(tree))
         IN  UNION {{<<tree[i]>> \o s : s \in SortedTrees(Without(i))} : i \in earliest}

\* no query asked; every PatternModel holds its voice's pattern
NoQuery ==
    [asked |-> "none", voice |-> 0, a |-> 0, b |-> 0, c |-> 0,
     ab |-> <<>>, bc |-> <<>>, ac |-> <<>>,
     tree |-> [v \in Voices |-> LoadFromPattern(InitNotes[v])],
     bars |-> [v \in Voices |-> 1], swing |-> [v \in Voices |-> 0]]

\* PatternModel::saveToPattern into the pattern a model auto-syncs to: the
\* model's bars and swing, and the notes of its children
AutoSyncPattern(q, v, tree) ==
    [notes |-> SaveToPattern(tree), bars |-> q.bars[v], swing |-> q.swing[v]]

\* PatternModel::loadFromPattern called with the pattern the model
\* auto-syncs to.  Every removeChild and every setProperty that changes a
\* value runs the listener's saveToPattern on that same pattern before the
\* loop reads its notes.  The loop's appendChild runs it too, clearing and
\* refilling the vector the loop iterates over: the storage is not
\* reallocated, so a build that does not trap reads every note.
LoadAutoSynced(tree, bars, swing, pat) ==
    LET removed  == IF tree = <<>> THEN pat
                    ELSE [notes |-> <<>>, bars |-> bars, swing |-> swing]
        barsSet  == IF removed.bars = bars THEN removed
                    ELSE [notes |-> <<>>, bars |-> removed.bars, swing |-> swing]
        swingSet == IF barsSet.swing = swing THEN barsSet
                    ELSE [barsSet EXCEPT !.notes = <<>>]
        children == LoadFromPattern(swingSet.notes)
    IN  [tree |-> children, bars |-> swingSet.bars, swing |-> swingSet.swing,
         pattern |-> IF children = <<>> THEN swingSet
                     ELSE [swingSet EXCEPT !.notes = SaveToPattern(children)]]

----------------------------------------------------------------------------
(* SequencerEngine *)

PatternLength(v) == project.voices[v].pattern.bars * BeatsPerBar * TicksPerBeat

MaxOf(S) == CHOOSE x \in S : \A y \in S : y <= x

\* the loop end taken from the project's loopBars
GetLoopEndFromLoopBars ==
    IF ~project_
    THEN BeatsPerBar * TicksPerBeat
    ELSE project.loopBars * BeatsPerBar * TicksPerBeat

\* SequencerEngine::getLoopEndBeat
GetLoopEndBeat ==
    IF ~project_
    THEN BeatsPerBar * TicksPerBeat
    ELSE MaxOf({BeatsPerBar * TicksPerBeat} \cup {PatternLength(v) : v \in Voices})

\* juce::MidiBuffer::addEvent: the buffer stays ordered by sample position,
\* a new event goes after the events already at its position
AddEvent(buf, ev) ==
    LET k == Cardinality({i \in 1 .. Len(buf) : buf[i].pos <= ev.pos})
    IN  SubSeq(buf, 1, k) \o <<ev>> \o SubSeq(buf, k + 1, Len(buf))

AnySolo == \E v \in Voices : project.voices[v].solo

\* the test with the mute flag alone
NotMuted(v) == ~project.voices[v].mute

\* the mute/solo test of triggerNotesInRange
Audible(v) ==
    IF AnySolo THEN project.voices[v].solo ELSE ~project.voices[v].mute

\* the lambda without its push_back: the note-on alone
AddNoteOnUntracked(st, v, note, noteOffsetBeats, startBeat, numSamples, base, bps) ==
    LET samplePos == Clamp(base + TruncDiv(noteOffsetBeats, bps), 0, numSamples - 1)
    IN  [bufs   |-> [st.bufs EXCEPT ![v] =
                        AddEvent(@, NoteOn(note.pitch, note.velocity, samplePos))],
         active |-> st.active]

\* the addNoteOn lambda: st holds the buffers and the active notes so far
AddNoteOn(st, v, note, noteOffsetBeats, startBeat, numSamples, base, bps) ==
    LET samplePos == Clamp(base + TruncDiv(noteOffsetBeats, bps), 0, numSamples - 1)
        noteEndGlobal == startBeat + noteOffsetBeats + note.duration
    IN  [bufs   |-> [st.bufs EXCEPT ![v] =
                        AddEvent(@, NoteOn(note.pitch, note.velocity, samplePos))],
         active |-> Append(st.active, ActiveNote(v, note.pitch, noteEndGlobal))]

\* one `for (const auto *note : notes)` loop: noteOffsetBeats = startBeat(note) + delta
RECURSIVE AddNoteOns(_, _, _, _, _, _, _, _)
AddNoteOns(st, v, notes, delta, startBeat, numSamples, base, bps) ==
    IF notes = <<>>
    THEN st
    ELSE AddNoteOns(AddNoteOn(st, v, Head(notes), Head(notes).startBeat + delta,
                              startBeat, numSamples, base, bps),
                    v, Tail(notes), delta, startBeat, numSamples, base, bps)

\* the voice loop body without the split at the pattern's end
TriggerVoiceUnsplit(st, v, startBeat, endBeat, numSamples, base, bps, present) ==
    LET voice         == project.voices[v]
        patternLength == PatternLength(v)
        wrappedStart  == Fmod(startBeat, patternLength)
        wrappedEnd    == wrappedStart + (endBeat - startBeat)
    IN  IF ~present[v] \/ ~Audible(v) \/ patternLength <= 0 THEN st
        ELSE AddNoteOns(st, v,
                        GetNotesStartingInRange(voice.pattern.notes, wrappedStart,
                                                wrappedEnd),
                        -wrappedStart, startBeat, numSamples, base, bps)

\* the body of the voice loop of triggerNotesInRange
TriggerVoice(st, v, startBeat, endBeat, numSamples, base, bps, present) ==
    LET blockLength   == endBeat - startBeat
        voice         == project.voices[v]
        patternLength == PatternLength(v)
        wrappedStart  == Fmod(startBeat, patternLength)
        wrappedEnd    == wrappedStart + blockLength
    IN  IF ~present[v] THEN st
        ELSE IF ~Audible(v) THEN st
        ELSE IF patternLength <= 0 THEN st
        ELSE IF wrappedEnd > patternLength
        THEN LET notes1    == GetNotesStartingInRange(voice.pattern.notes,
                                                      wrappedStart, patternLength)
                 st1       == AddNoteOns(st, v, notes1, -wrappedStart, startBeat,
                                         numSamples, base, bps)
                 remainder == wrappedEnd - patternLength
                 notes2    == GetNotesStartingInRange(voice.pattern.notes, 0, remainder)
             IN  AddNoteOns(st1, v, notes2, patternLength - wrappedStart, startBeat,
                            numSamples, base, bps)
        ELSE LET notesToTrigger == GetNotesStartingInRange(voice.pattern.notes,
                                                           wrappedStart, wrappedEnd)
             IN  AddNoteOns(st, v, notesToTrigger, -wrappedStart, startBeat,
                            numSamples, base, bps)

RECURSIVE TriggerFrom(_, _, _, _, _, _, _, _)
TriggerFrom(st, v, startBeat, endBeat, numSamples, base, bps, present) ==
    IF v >= NUM_VOICES
    THEN st
    ELSE TriggerFrom(TriggerVoice(st, v, startBeat, endBeat, numSamples, base, bps,
                                  present),
                     v + 1, startBeat, endBeat, numSamples, base, bps, present)

\* SequencerEngine::triggerNotesInRange
TriggerNotesInRange(st, startBeat, endBeat, numSamples, base, bps, present) ==
    IF ~project_
    THEN st
    ELSE TriggerFrom(st, 0, startBeat, endBeat, numSamples, base, bps, present)

\* the release test with the block closed at its end
EndsInRangeClosed(a, startBeat, endBeat) == a.endBeat > startBeat /\ a.endBeat <= endBeat

\* the test without its lower bound
EndsBeforeEnd(a, startBeat, endBeat) == a.endBeat < endBeat

\* the test that selects the active notes to release
EndsInRange(a, startBeat, endBeat) == a.endBeat >= startBeat /\ a.endBeat < endBeat

\* SequencerEngine::releaseNotesEndingInRange; rest is the part of
\* activeNotes_ the iterator has not visited yet
RECURSIVE ReleaseFrom(_, _, _, _, _, _, _, _)
ReleaseFrom(st, rest, startBeat, endBeat, numSamples, base, bps, present) ==
    IF rest = <<>>
    THEN st
    ELSE LET a == Head(rest)
             samplePos == Clamp(base + TruncDiv(a.endBeat - startBeat, bps),
                                0, numSamples - 1)
             next ==
                 IF EndsInRange(a, startBeat, endBeat)
                 THEN [bufs   |-> IF present[a.voiceIndex]
                                  THEN [st.bufs EXCEPT ![a.voiceIndex] =
                                           AddEvent(@, NoteOff(a.pitch, samplePos))]
                                  ELSE st.bufs,
                       active |-> st.active]
                 ELSE [bufs |-> st.bufs, active |-> Append(st.active, a)]
         IN  ReleaseFrom(next, Tail(rest), startBeat, endBeat, numSamples, base, bps,
                         present)

ReleaseNotesEndingInRange(st, startBeat, endBeat, numSamples, base, bps, present) ==
    ReleaseFrom([bufs |-> st.bufs, active |-> <<>>], st.active, startBeat, endBeat,
                numSamples, base, bps, present)

\* the wrap without the rebase loop: the end beats stay in the old loop pass
KeepEndBeats(active, loopEnd) == active

\* `for (auto &active : activeNotes_) active.endBeat -= loopEnd;`
RebaseActiveNotes(active, loopEnd) ==
    [i \in 1 .. Len(active) |-> [active[i] EXCEPT !.endBeat = @ - loopEnd]]

\* the wrap test with `endBeat > loopEnd`
WrapsPastLoopEnd(endBeat, loopEnd) == endBeat > loopEnd

\* the wrap test of process()
WrapsLoop(endBeat, loopEnd) == endBeat >= loopEnd

\* SequencerEngine::process, from the cursor load to the cursor store
ProcessBlock(startBeat, active, bufs, numSamples, sampleRate, present) ==
    LET bps      == BeatsPerSample(project.tempo, sampleRate)
        endBeat  == startBeat + bps * numSamples
        loopEnd  == GetLoopEndBeat
        st0      == [bufs |-> bufs, active |-> active]
    IN  IF WrapsLoop(endBeat, loopEnd)
        THEN LET a1 == TriggerNotesInRange(st0, startBeat, loopEnd, numSamples, 0,
                                           bps, present)
                 a2 == ReleaseNotesEndingInRange(a1, startBeat, loopEnd, numSamples,
                                                 0, bps, present)
                 loopSampleOffset == TruncDiv(loopEnd - startBeat, bps)
                 remainder == endBeat - loopEnd
                 a3 == [a2 EXCEPT !.active = RebaseActiveNotes(@, loopEnd)]
                 b1 == TriggerNotesInRange(a3, 0, remainder, numSamples,
                                           loopSampleOffset, bps, present)
                 b2 == ReleaseNotesEndingInRange(b1, 0, remainder, numSamples,
                                                 loopSampleOffset, bps, present)
             IN  [currentBeat |-> remainder, active |-> b2.active, bufs |-> b2.bufs,
                  wrapped |-> TRUE]
        ELSE LET c1 == TriggerNotesInRange(st0, startBeat, endBeat, numSamples, 0,
                                           bps, present)
                 c2 == ReleaseNotesEndingInRange(c1, startBeat, endBeat, numSamples,
                                                 0, bps, present)
             IN  [currentBeat |-> endBeat, active |-> c2.active, bufs |-> c2.bufs,
                  wrapped |-> FALSE]

\* the early return testing the project alone
ProcessRunsStopped == project_

\* the early return of process()
ProcessRuns == playing_ /\ project_

\* a release loop that ends after its first call
ReleaseFirstActive(active) ==
    LET bound == SelectSeq(active, LAMBDA a : synths_[a.voiceIndex])
    IN  IF bound = <<>> THEN <<>>
        ELSE <<[voice |-> bound[1].voiceIndex, pitch |-> bound[1].pitch]>>

\* the releaseNote calls of stop() and setPositionBeats(): one per active
\* note whose voice has a synth
ReleaseAllActive(active) ==
    LET bound == SelectSeq(active, LAMBDA a : synths_[a.voiceIndex])
    IN  [i \in 1 .. Len(bound) |-> [voice |-> bound[i].voiceIndex, pitch |-> bound[i].pitch]]

----------------------------------------------------------------------------
(* Operations of the transport, each one call.  synthCalls and midiBuffers  *)
(* hold what the call emitted: its releaseNote calls, and the events it    *)
(* put in the buffers its caller cleared for it (none outside process()).  *)

\* SequencerEngine::setProject
SetProject(p) ==
    /\ project_' = p
    /\ synthCalls' = <<>>
    /\ midiBuffers' = EmptyBuffers
    /\ lastOp' = Op("setProject", 0)
    /\ output' = NoOutput
    /\ UNCHANGED <<project, synths_, playing_, currentBeat_, activeNotes_,
                   audio, ui, query,
                   engineVars>>

\* SequencerEngine::setSynths
SetSynths(s) ==
    /\ synths_' = s
    /\ synthCalls' = <<>>
    /\ midiBuffers' = EmptyBuffers
    /\ lastOp' = Op("setSynths", 0)
    /\ output' = NoOutput
    /\ UNCHANGED <<project, project_, playing_, currentBeat_, activeNotes_,
                   audio, ui, query,
                   engineVars>>

\* play() that rewinds when it starts the transport
PlayFromStart ==
    /\ IF playing_
       THEN UNCHANGED <<playing_, currentBeat_>>
       ELSE playing_' = TRUE /\ currentBeat_' = 0
    /\ synthCalls' = <<>>
    /\ midiBuffers' = EmptyBuffers
    /\ lastOp' = Op("play", 0)
    /\ output' = NoOutput
    /\ UNCHANGED <<project, project_, synths_, activeNotes_, audio, ui, query,
                   engineVars>>

\* SequencerEngine::play
Play ==
    /\ IF playing_ THEN UNCHANGED playing_ ELSE playing_' = TRUE
    /\ synthCalls' = <<>>
    /\ midiBuffers' = EmptyBuffers
    /\ lastOp' = Op("play", 0)
    /\ output' = NoOutput
    /\ UNCHANGED <<project, project_, synths_, currentBeat_, activeNotes_,
                   audio, ui, query,
                   engineVars>>

\* stop() that keeps the cursor: a pause
Pause ==
    /\ playing_' = FALSE
    /\ synthCalls' = ReleaseAllActive(activeNotes_)
    /\ midiBuffers' = EmptyBuffers
    /\ activeNotes_' = <<>>
    /\ lastOp' = Op("stop", 0)
    /\ output' = NoOutput
    /\ UNCHANGED <<project, project_, synths_, currentBeat_, audio, ui, query,
                   engineVars>>

\* SequencerEngine::stop
Stop ==
    /\ playing_' = FALSE
    /\ synthCalls' = ReleaseAllActive(activeNotes_)
    /\ midiBuffers' = EmptyBuffers
    /\ activeNotes_' = <<>>
    /\ currentBeat_' = 0
    /\ lastOp' = Op("stop", 0)
    /\ output' = NoOutput
    /\ UNCHANGED <<project, project_, synths_, audio, ui, query,
                   engineVars>>

\* setPositionBeats() that wraps the target into the loop
SetPositionWrapped(beat) ==
    /\ synthCalls' = ReleaseAllActive(activeNotes_)
    /\ midiBuffers' = EmptyBuffers
    /\ activeNotes_' = <<>>
    /\ currentBeat_' = Fmod(beat, GetLoopEndBeat)
    /\ lastOp' = Op("setPositionBeats", beat)
    /\ output' = NoOutput
    /\ UNCHANGED <<project, project_, synths_, playing_, audio, ui, query,
                   engineVars>>

\* SequencerEngine::setPositionBeats
SetPositionBeats(beat) ==
    /\ synthCalls' = ReleaseAllActive(activeNotes_)
    /\ midiBuffers' = EmptyBuffers
    /\ activeNotes_' = <<>>
    /\ currentBeat_' = beat
    /\ lastOp' = Op("setPositionBeats", beat)
    /\ output' = NoOutput
    /\ UNCHANGED <<project, project_, synths_, playing_, audio, ui, query,
                   engineVars>>

\* SequencerEngine::process, called as SurgeBoxEngine::process calls it: on
\* buffers cleared for the block; present[v] is midiBuffers[v] != nullptr
Process(numSamples, present) ==
    LET r == ProcessBlock(currentBeat_, activeNotes_, EmptyBuffers, numSamples,
                          SampleRate, present)
    IN  /\ IF ProcessRuns
           THEN /\ currentBeat_' = r.currentBeat
                /\ activeNotes_' = r.active
                /\ midiBuffers' = r.bufs
           ELSE /\ midiBuffers' = EmptyBuffers
                /\ UNCHANGED <<currentBeat_, activeNotes_>>
        /\ synthCalls' = <<>>
        /\ lastOp' = [name |-> "process", arg |-> numSamples, present |-> present,
                      wrapped |-> IF ProcessRuns THEN r.wrapped ELSE FALSE,
                      overlap |-> FALSE]
        /\ output' = NoOutput
        /\ UNCHANGED <<project, project_, synths_, playing_, audio, ui, query,
                   engineVars>>

\* the tempo slider: project.tempo = value
SetTempo(t) ==
    /\ project' = [project EXCEPT !.tempo = t]
    /\ synthCalls' = <<>>
    /\ midiBuffers' = EmptyBuffers
    /\ lastOp' = Op("setTempo", 0)
    /\ output' = NoOutput
    /\ UNCHANGED <<project_, synths_, playing_, currentBeat_, activeNotes_,
                   audio, ui, query,
                   engineVars>>

\* PatternModel::setBars: setProperty, and the property listener's
\* saveToPattern when the value changes
SetBars(v, b) ==
    /\ query' = [query EXCEPT !.bars[v] = b]
    /\ project' = IF b = query.bars[v] THEN project
                  ELSE [project EXCEPT !.voices[v].pattern =
                           AutoSyncPattern(query', v, query.tree[v])]
    /\ synthCalls' = <<>>
    /\ midiBuffers' = EmptyBuffers
    /\ lastOp' = Op("setBars", 0)
    /\ output' = NoOutput
    /\ UNCHANGED <<project_, synths_, playing_, currentBeat_, activeNotes_,
                   audio, ui,
                   engineVars>>

SynthChoices == {AllVoices, OnlyVoice(0)}

PresentChoices == {AllVoices, AllButVoice(1)}

Init ==
    /\ project = InitProject
    /\ project_ = FALSE
    /\ synths_ = NoVoices
    /\ playing_ = FALSE
    /\ currentBeat_ = 0
    /\ activeNotes_ = <<>>
    /\ midiBuffers = EmptyBuffers
    /\ synthCalls = <<>>
    /\ lastOp = NoOp
    /\ disk = NoFile
    /\ activeVoice_ = 0
    /\ voiceChanged = <<>>
    /\ initialized_ = FALSE
    /\ onVoiceChanged = FALSE
    /\ onPlayheadMoved = FALSE
    /\ output = NoOutput
    /\ audio = Idle
    /\ ui = Idle
    /\ query = NoQuery

Next ==
    \/ \E p \in BOOLEAN : SetProject(p)
    \/ \E s \in SynthChoices : SetSynths(s)
    \/ Play
    \/ Stop
    \/ \E beat \in SeekTargets : SetPositionBeats(beat)
    \/ \E n \in BlockSizes, present \in PresentChoices : Process(n, present)
    \/ \E b \in 1 .. MaxBars : SetBars(1, b)
    \/ \E t \in Tempos : SetTempo(t)

Spec == Init /\ [][Next]_vars

----------------------------------------------------------------------------
(* The transport of an initialized engine with the mixer flags changing    *)
(* between blocks.                                                         *)

\* a write of VoiceState::mute through getProject()
SetMute(v, on) ==
    /\ project' = [project EXCEPT !.voices[v].mute = on]
    /\ synthCalls' = <<>>
    /\ midiBuffers' = EmptyBuffers
    /\ lastOp' = Op("setMute", 0)
    /\ output' = NoOutput
    /\ UNCHANGED <<project_, synths_, playing_, currentBeat_, activeNotes_,
                   audio, ui, query,
                   engineVars>>

\* a write of VoiceState::solo through getProject()
SetSolo(v, on) ==
    /\ project' = [project EXCEPT !.voices[v].solo = on]
    /\ synthCalls' = <<>>
    /\ midiBuffers' = EmptyBuffers
    /\ lastOp' = Op("setSolo", 0)
    /\ output' = NoOutput
    /\ UNCHANGED <<project_, synths_, playing_, currentBeat_, activeNotes_,
                   audio, ui, query,
                   engineVars>>

\* voices whose mute flag changes, and voices whose solo flag changes
MuteVoices == {0, 1}

SoloVoices == {0, 1, 2}

\* after SurgeBoxEngine::initialize: project and synths bound
InitEngine ==
    /\ project = InitProject
    /\ project_ = TRUE
    /\ synths_ = AllVoices
    /\ playing_ = FALSE
    /\ currentBeat_ = 0
    /\ activeNotes_ = <<>>
    /\ midiBuffers = EmptyBuffers
    /\ synthCalls = <<>>
    /\ lastOp = NoOp
    /\ disk = NoFile
    /\ activeVoice_ = 0
    /\ voiceChanged = <<>>
    /\ initialized_ = TRUE
    /\ onVoiceChanged = TRUE
    /\ onPlayheadMoved = FALSE
    /\ output = NoOutput
    /\ audio = Idle
    /\ ui = Idle
    /\ query = NoQuery

NextMix ==
    \/ \E v \in MuteVoices, on \in BOOLEAN : SetMute(v, on)
    \/ \E v \in SoloVoices, on \in BOOLEAN : SetSolo(v, on)
    \/ Play
    \/ Stop
    \/ \E n \in BlockSizes : Process(n, AllVoices)

SpecMix == InitEngine /\ [][NextMix]_vars

----------------------------------------------------------------------------
(* Uninterrupted playback from beat 0.                                     *)

\* the one-bar project with the single note (start 0, duration 1 beat,
\* pitch 60, velocity 100) in voice 0
SingleNoteProject ==
    [Reset(0) EXCEPT !.voices =
        [v \in Voices |->
            [ResetVoice(v) EXCEPT !.pattern =
                [notes |-> IF v = 0 THEN <<MIDINote(0, TicksPerBeat, 60, 100)>> ELSE <<>>,
                 bars |-> 1, swing |-> 0]]]]

InitPlayback ==
    /\ project \in {SingleNoteProject, InitProject}
    /\ project_ = TRUE
    /\ synths_ = AllVoices
    /\ playing_ = FALSE
    /\ currentBeat_ = 0
    /\ activeNotes_ = <<>>
    /\ midiBuffers = EmptyBuffers
    /\ synthCalls = <<>>
    /\ lastOp = NoOp
    /\ disk = NoFile
    /\ activeVoice_ = 0
    /\ voiceChanged = <<>>
    /\ initialized_ = TRUE
    /\ onVoiceChanged = TRUE
    /\ onPlayheadMoved = FALSE
    /\ output = NoOutput
    /\ audio = Idle
    /\ ui = Idle
    /\ query = [NoQuery EXCEPT !.tree =
                    [v \in Voices |-> LoadFromPattern(project.voices[v].pattern.notes)]]

NextPlayback ==
    \/ Play
    \/ \E n \in BlockSizes : Process(n, AllVoices)
    \/ \E t \in Tempos : SetTempo(t)

SpecPlayback == InitPlayback /\ [][NextPlayback]_vars

----------------------------------------------------------------------------
(* The transport under two threads.                                        *)
(* The audio thread runs SurgeBoxEngine::process -> SequencerEngine::      *)
(* process; the control thread runs the transport buttons and the piano    *)
(* roll's paint.  No lock orders them: each thread advances one statement  *)
(* group at a time, and lastOp names the call that began last, with        *)
(* overlap = the other thread was inside a call when it began.             *)

AudioIdle == audio.pc = "idle"

UiIdle == ui.pc = "idle"

\* process(): the early return (line 111) on cleared buffers
A_Begin(numSamples) ==
    /\ AudioIdle
    /\ audio.blocks < MaxBlocks
    /\ midiBuffers' = EmptyBuffers
    /\ audio' = IF ProcessRuns
                THEN [pc |-> "load", blocks |-> audio.blocks + 1,
                      numSamples |-> numSamples]
                ELSE [pc |-> "idle", blocks |-> audio.blocks + 1]
    /\ lastOp' = [name |-> "process", arg |-> numSamples, present |-> AllVoices,
                  wrapped |-> FALSE, overlap |-> ~UiIdle]
    /\ output' = NoOutput
    /\ UNCHANGED <<project, project_, synths_, playing_, currentBeat_, activeNotes_,
                   synthCalls, ui, query,
                   engineVars>>

\* process(): beatsPerSample_, the cursor load, endBeat and loopEnd
A_Load ==
    /\ audio.pc = "load"
    /\ LET bps     == BeatsPerSample(project.tempo, SampleRate)
           endBeat == currentBeat_ + bps * audio.numSamples
           loopEnd == GetLoopEndBeat
       IN  audio' = [pc |-> "trigger1", blocks |-> audio.blocks,
                     numSamples |-> audio.numSamples, bps |-> bps,
                     startBeat |-> currentBeat_, endBeat |-> endBeat,
                     loopEnd |-> loopEnd, wraps |-> WrapsLoop(endBeat, loopEnd)]
    /\ output' = NoOutput
    /\ UNCHANGED <<project, project_, synths_, playing_, currentBeat_, activeNotes_,
                   midiBuffers, synthCalls, lastOp, ui, query,
                   engineVars>>

AudioState == [bufs |-> midiBuffers, active |-> activeNotes_]

\* process(): the first triggerNotesInRange call of either branch
A_Trigger1 ==
    /\ audio.pc = "trigger1"
    /\ LET r == TriggerNotesInRange(AudioState, audio.startBeat,
                                    IF audio.wraps THEN audio.loopEnd ELSE audio.endBeat,
                                    audio.numSamples, 0, audio.bps, AllVoices)
       IN  /\ activeNotes_' = r.active
           /\ midiBuffers' = r.bufs
    /\ audio' = [audio EXCEPT !.pc = "release1"]
    /\ output' = NoOutput
    /\ UNCHANGED <<project, project_, synths_, playing_, currentBeat_, synthCalls,
                   lastOp, ui, query,
                   engineVars>>

\* process(): the first releaseNotesEndingInRange call of either branch
A_Release1 ==
    /\ audio.pc = "release1"
    /\ LET r == ReleaseNotesEndingInRange(AudioState, audio.startBeat,
                                          IF audio.wraps THEN audio.loopEnd
                                                         ELSE audio.endBeat,
                                          audio.numSamples, 0, audio.bps, AllVoices)
       IN  /\ activeNotes_' = r.active
           /\ midiBuffers' = r.bufs
    /\ audio' = [audio EXCEPT !.pc = IF audio.wraps THEN "rebase" ELSE "store"]
    /\ output' = NoOutput
    /\ UNCHANGED <<project, project_, synths_, playing_, currentBeat_, synthCalls,
                   lastOp, ui, query,
                   engineVars>>

\* process(): the rebase loop of the wrap branch
A_Rebase ==
    /\ audio.pc = "rebase"
    /\ activeNotes_' = RebaseActiveNotes(activeNotes_, audio.loopEnd)
    /\ audio' = [audio EXCEPT !.pc = "trigger2"]
    /\ output' = NoOutput
    /\ UNCHANGED <<project, project_, synths_, playing_, currentBeat_, midiBuffers,
                   synthCalls, lastOp, ui, query,
                   engineVars>>

\* the base offset taken from the beats after the loop end
RemainderSampleOffset == TruncDiv(audio.endBeat - audio.loopEnd, audio.bps)

\* loopSampleOffset = static_cast<int>(beatsBeforeLoop / beatsPerSample_)
LoopSampleOffset == TruncDiv(audio.loopEnd - audio.startBeat, audio.bps)

\* process(): triggerNotesInRange(0.0, remainder, ..., loopSampleOffset)
A_Trigger2 ==
    /\ audio.pc = "trigger2"
    /\ LET r == TriggerNotesInRange(AudioState, 0, audio.endBeat - audio.loopEnd,
                                    audio.numSamples, LoopSampleOffset, audio.bps,
                                    AllVoices)
       IN  /\ activeNotes_' = r.active
           /\ midiBuffers' = r.bufs
    /\ audio' = [audio EXCEPT !.pc = "release2"]
    /\ output' = NoOutput
    /\ UNCHANGED <<project, project_, synths_, playing_, currentBeat_, synthCalls,
                   lastOp, ui, query,
                   engineVars>>

\* process(): releaseNotesEndingInRange(0.0, remainder, ..., loopSampleOffset)
A_Release2 ==
    /\ audio.pc = "release2"
    /\ LET r == ReleaseNotesEndingInRange(AudioState, 0, audio.endBeat - audio.loopEnd,
                                          audio.numSamples, LoopSampleOffset,
                                          audio.bps, AllVoices)
       IN  /\ activeNotes_' = r.active
           /\ midiBuffers' = r.bufs
    /\ audio' = [audio EXCEPT !.pc = "store"]
    /\ output' = NoOutput
    /\ UNCHANGED <<project, project_, synths_, playing_, currentBeat_, synthCalls,
                   lastOp, ui, query,
                   engineVars>>

\* process(): currentBeat_.store(remainder) / currentBeat_.store(endBeat)
A_Store ==
    /\ audio.pc = "store"
    /\ currentBeat_' = IF audio.wraps THEN audio.endBeat - audio.loopEnd
                                      ELSE audio.endBeat
    /\ audio' = [pc |-> "idle", blocks |-> audio.blocks]
    /\ output' = NoOutput
    /\ UNCHANGED <<project, project_, synths_, playing_, activeNotes_, midiBuffers,
                   synthCalls, lastOp, ui, query,
                   engineVars>>

UiOp(n, a) == [Op(n, a) EXCEPT !.overlap = ~AudioIdle]

\* TransportControls::mouseDown on the play button: engine_->play()
U_Play ==
    /\ UiIdle
    /\ IF playing_ THEN UNCHANGED playing_ ELSE playing_' = TRUE
    /\ synthCalls' = <<>>
    /\ lastOp' = UiOp("play", 0)
    /\ output' = NoOutput
    /\ UNCHANGED <<project, project_, synths_, currentBeat_, activeNotes_,
                   midiBuffers, audio, ui, query,
                   engineVars>>

\* stop(): playing_.store(false); button = the stop button, whose handler
\* goes on to rewind()
U_StopBegin(button) ==
    /\ UiIdle
    /\ playing_' = FALSE
    /\ synthCalls' = <<>>
    /\ ui' = [pc |-> "stopRelease", beat |-> 0, button |-> button]
    /\ lastOp' = UiOp(IF button THEN "stopButton" ELSE "stop", 0)
    /\ output' = NoOutput
    /\ UNCHANGED <<project, project_, synths_, currentBeat_, activeNotes_,
                   midiBuffers, audio, query,
                   engineVars>>

\* stop() and setPositionBeats(): the releaseNote loop over activeNotes_
U_Release ==
    /\ ui.pc \in {"stopRelease", "seekRelease"}
    /\ synthCalls' = synthCalls \o ReleaseAllActive(activeNotes_)
    /\ ui' = [ui EXCEPT !.pc = IF ui.pc = "stopRelease" THEN "stopClear" ELSE "seekClear"]
    /\ output' = NoOutput
    /\ UNCHANGED <<project, project_, synths_, playing_, currentBeat_, activeNotes_,
                   midiBuffers, lastOp, audio, query,
                   engineVars>>

\* stop() and setPositionBeats(): activeNotes_.clear()
U_Clear ==
    /\ ui.pc \in {"stopClear", "seekClear"}
    /\ activeNotes_' = <<>>
    /\ ui' = [ui EXCEPT !.pc = IF ui.pc = "stopClear" THEN "stopStore" ELSE "seekStore"]
    /\ output' = NoOutput
    /\ UNCHANGED <<project, project_, synths_, playing_, currentBeat_, midiBuffers,
                   synthCalls, lastOp, audio, query,
                   engineVars>>

\* stop(): currentBeat_.store(0.0); the stop button then calls rewind()
U_StopStore ==
    /\ ui.pc = "stopStore"
    /\ currentBeat_' = 0
    /\ ui' = IF ui.button THEN [ui EXCEPT !.pc = "seekRelease"] ELSE Idle
    /\ output' = NoOutput
    /\ UNCHANGED <<project, project_, synths_, playing_, activeNotes_, midiBuffers,
                   synthCalls, lastOp, audio, query,
                   engineVars>>

\* setPositionBeats(beat) begins
U_SeekBegin(beat) ==
    /\ UiIdle
    /\ synthCalls' = <<>>
    /\ ui' = [pc |-> "seekRelease", beat |-> beat, button |-> FALSE]
    /\ lastOp' = UiOp("setPositionBeats", beat)
    /\ output' = NoOutput
    /\ UNCHANGED <<project, project_, synths_, playing_, currentBeat_, activeNotes_,
                   midiBuffers, audio, query,
                   engineVars>>

\* setPositionBeats(): currentBeat_.store(beat)
U_SeekStore ==
    /\ ui.pc = "seekStore"
    /\ currentBeat_' = ui.beat
    /\ ui' = Idle
    /\ output' = NoOutput
    /\ UNCHANGED <<project, project_, synths_, playing_, activeNotes_, midiBuffers,
                   synthCalls, lastOp, audio, query,
                   engineVars>>

\* PianoRollWidget::paint: if (engine_->isPlaying()) ...
U_PaintBegin ==
    /\ UiIdle
    /\ playing_
    /\ synthCalls' = <<>>
    /\ ui' = [pc |-> "getPlayingNotes", beat |-> 0, button |-> FALSE]
    /\ lastOp' = UiOp("paint", 0)
    /\ output' = NoOutput
    /\ UNCHANGED <<project, project_, synths_, playing_, currentBeat_, activeNotes_,
                   midiBuffers, audio, query,
                   engineVars>>

\* getPlayingNotes(activeVoice): the read loop over activeNotes_
U_GetPlayingNotes ==
    /\ ui.pc = "getPlayingNotes"
    /\ ui' = Idle
    /\ output' = NoOutput
    /\ UNCHANGED <<project, project_, synths_, playing_, currentBeat_, activeNotes_,
                   midiBuffers, synthCalls, lastOp, audio, query,
                   engineVars>>

ConcSeekTargets == {0, Bar - 2}

InitConc ==
    /\ project = InitProject
    /\ project_ = TRUE
    /\ synths_ = AllVoices
    /\ playing_ = FALSE
    /\ currentBeat_ = 0
    /\ activeNotes_ = <<>>
    /\ midiBuffers = EmptyBuffers
    /\ synthCalls = <<>>
    /\ lastOp = NoOp
    /\ disk = NoFile
    /\ activeVoice_ = 0
    /\ voiceChanged = <<>>
    /\ initialized_ = TRUE
    /\ onVoiceChanged = TRUE
    /\ onPlayheadMoved = FALSE
    /\ output = NoOutput
    /\ audio = [pc |-> "idle", blocks |-> 0]
    /\ ui = Idle
    /\ query = NoQuery

AudioNext ==
    \/ \E n \in BlockSizes : A_Begin(n)
    \/ A_Load
    \/ A_Trigger1
    \/ A_Release1
    \/ A_Rebase
    \/ A_Trigger2
    \/ A_Release2
    \/ A_Store

UiNext ==
    \/ U_Play
    \/ \E button \in BOOLEAN : U_StopBegin(button)
    \/ U_Release
    \/ U_Clear
    \/ U_StopStore
    \/ \E beat \in ConcSeekTargets : U_SeekBegin(beat)
    \/ U_SeekStore
    \/ U_PaintBegin
    \/ U_GetPlayingNotes

NextConc == AudioNext \/ UiNext

SpecConc == InitConc /\ [][NextConc]_vars

----------------------------------------------------------------------------
(* Pattern editing and the start-range queries.                            *)
(* PatternModel v auto-syncs to project.voices[v].pattern: every change of *)
(* its tree ends in saveToPattern.                                         *)

\* notes a pattern holds at most in the query specification
MaxNotes == 3

EditVoices == {2}

QueryStarts == {0, TicksPerBeat - 1, TicksPerBeat}

QueryPitches == {60, 62}

QueryBeats == {0, TicksPerBeat - 1, TicksPerBeat, TicksPerBeat + 1}

Unasked(q) ==
    [q EXCEPT !.asked = "none", !.voice = 0, !.a = 0, !.b = 0, !.c = 0,
              !.ab = <<>>, !.bc = <<>>, !.ac = <<>>]

\* PatternModel::addNote: appendChild, sortNotes, and the listeners' saveToPattern
AddNote(v, start, p) ==
    /\ Len(query.tree[v]) < MaxNotes
    /\ \E s \in SortedTrees(Append(query.tree[v], NoteTree(start, TicksPerBeat, p, 100))) :
          /\ query' = [Unasked(query) EXCEPT !.tree[v] = s]
          /\ project' = [project EXCEPT !.voices[v].pattern = AutoSyncPattern(query, v, s)]
    /\ synthCalls' = <<>>
    /\ midiBuffers' = EmptyBuffers
    /\ lastOp' = Op("addNote", 0)
    /\ output' = NoOutput
    /\ UNCHANGED <<project_, synths_, playing_, currentBeat_, activeNotes_,
                   audio, ui,
                   engineVars>>

\* PatternModel::removeNote: removeChild when the index is in range
RemoveNote(v, index) ==
    LET tree == query.tree[v]
        s    == IF index >= 0 /\ index < Len(tree)
                THEN SubSeq(tree, 1, index) \o SubSeq(tree, index + 2, Len(tree))
                ELSE tree
    IN  /\ query' = [Unasked(query) EXCEPT !.tree[v] = s]
        /\ project' = IF s = tree THEN project
                      ELSE [project EXCEPT !.voices[v].pattern = AutoSyncPattern(query, v, s)]
        /\ synthCalls' = <<>>
        /\ midiBuffers' = EmptyBuffers
        /\ lastOp' = Op("removeNote", index)
        /\ output' = NoOutput
        /\ UNCHANGED <<project_, synths_, playing_, currentBeat_, activeNotes_,
                       audio, ui,
                   engineVars>>

\* Pattern::getNotesStartingInRange asked for [a, b), [b, c) and [a, c)
QueryPattern(v, a, b, c) ==
    LET notes == project.voices[v].pattern.notes
    IN  /\ query' = [query EXCEPT !.asked = "pattern", !.voice = v,
                                  !.a = a, !.b = b, !.c = c,
                                  !.ab = GetNotesStartingInRange(notes, a, b),
                                  !.bc = GetNotesStartingInRange(notes, b, c),
                                  !.ac = GetNotesStartingInRange(notes, a, c)]
        /\ synthCalls' = <<>>
        /\ midiBuffers' = EmptyBuffers
        /\ lastOp' = Op("getNotesStartingInRange", 0)
        /\ output' = NoOutput
        /\ UNCHANGED <<project, project_, synths_, playing_, currentBeat_, activeNotes_,
                       audio, ui,
                   engineVars>>

\* PatternModel::getNotesStartingInRange asked for [a, b), [b, c) and [a, c)
QueryModel(v, a, b, c) ==
    LET tree == query.tree[v]
    IN  /\ query' = [query EXCEPT !.asked = "model", !.voice = v,
                                  !.a = a, !.b = b, !.c = c,
                                  !.ab = ModelGetNotesStartingInRange(tree, a, b),
                                  !.bc = ModelGetNotesStartingInRange(tree, b, c),
                                  !.ac = ModelGetNotesStartingInRange(tree, a, c)]
        /\ synthCalls' = <<>>
        /\ midiBuffers' = EmptyBuffers
        /\ lastOp' = Op("getNotesStartingInRange", 0)
        /\ output' = NoOutput
        /\ UNCHANGED <<project, project_, synths_, playing_, currentBeat_, activeNotes_,
                       audio, ui,
                   engineVars>>

\* notes a pattern holds at most in the editing specification
MaxEditNotes == 2

EditStarts == {0, TicksPerBeat}

\* note indices tried: negative, first, last of a full pattern, past the end
IndexChoices == {-1, 0, MaxEditNotes - 1, MaxEditNotes}

\* PatternModel::addNote on a model of fewer than MaxEditNotes notes
EditAddNote(v, start, p) ==
    /\ Len(query.tree[v]) < MaxEditNotes
    /\ AddNote(v, start, p)

\* PatternModel::moveNote: two setProperty calls, each followed by the
\* property listener's saveToPattern when it changes the value, then sortNotes
MoveNote(v, index, newStartBeat, newPitch) ==
    LET tree  == query.tree[v]
        inRange == index >= 0 /\ index < Len(tree)
        moved == IF inRange
                 THEN [tree EXCEPT ![index + 1] =
                          NoteTree(newStartBeat, @[2], newPitch, @[4])]
                 ELSE tree
    IN  /\ \E s \in (IF inRange THEN SortedTrees(moved) ELSE {tree}) :
              query' = [Unasked(query) EXCEPT !.tree[v] = s]
        /\ project' = IF moved = tree THEN project
                      ELSE [project EXCEPT !.voices[v].pattern = AutoSyncPattern(query, v, moved)]
        /\ synthCalls' = <<>>
        /\ midiBuffers' = EmptyBuffers
        /\ lastOp' = Op("moveNote", index)
        /\ output' = NoOutput
        /\ UNCHANGED <<project_, synths_, playing_, currentBeat_, activeNotes_,
                       audio, ui,
                   engineVars>>

\* Pattern::addNote, called on the project's pattern itself
PatternAddNote(v, start, p) ==
    LET notes == project.voices[v].pattern.notes
    IN  /\ Len(notes) < MaxEditNotes
        /\ project' = [project EXCEPT !.voices[v].pattern.notes =
                           SortNotes(Append(notes, MIDINote(start, TicksPerBeat, p, 100)))]
        /\ synthCalls' = <<>>
        /\ midiBuffers' = EmptyBuffers
        /\ lastOp' = Op("Pattern::addNote", 0)
        /\ output' = NoOutput
        /\ UNCHANGED <<project_, synths_, playing_, currentBeat_, activeNotes_,
                       audio, ui, query,
                   engineVars>>

\* Pattern::removeNote: erase when index < notes.size()
PatternRemoveNote(v, index) ==
    LET notes == project.voices[v].pattern.notes
    IN  /\ project' = IF index < Len(notes)
                      THEN [project EXCEPT !.voices[v].pattern.notes =
                               SubSeq(notes, 1, index) \o SubSeq(notes, index + 2, Len(notes))]
                      ELSE project
        /\ synthCalls' = <<>>
        /\ midiBuffers' = EmptyBuffers
        /\ lastOp' = Op("Pattern::removeNote", index)
        /\ output' = NoOutput
        /\ UNCHANGED <<project_, synths_, playing_, currentBeat_, activeNotes_,
                       audio, ui, query,
                   engineVars>>

NextQuery ==
    \/ \E v \in EditVoices, start \in QueryStarts, p \in QueryPitches : AddNote(v, start, p)
    \/ \E v \in EditVoices, index \in 0 .. MaxNotes : RemoveNote(v, index)
    \/ \E v \in EditVoices, a \in QueryBeats, b \in QueryBeats, c \in QueryBeats :
          QueryPattern(v, a, b, c)
    \/ \E v \in EditVoices, a \in QueryBeats, b \in QueryBeats, c \in QueryBeats :
          QueryModel(v, a, b, c)

SpecQuery == Init /\ [][NextQuery]_vars

\* editing a pattern through its PatternModel and through the Pattern itself
NextEdit ==
    \/ \E v \in EditVoices, start \in EditStarts, p \in QueryPitches :
          EditAddNote(v, start, p)
    \/ \E v \in EditVoices, index \in IndexChoices : RemoveNote(v, index)
    \/ \E v \in EditVoices, index \in IndexChoices,
           start \in EditStarts, p \in QueryPitches : MoveNote(v, index, start, p)
    \/ \E v \in EditVoices, start \in EditStarts, p \in QueryPitches :
          PatternAddNote(v, start, p)
    \/ \E v \in EditVoices, index \in IndexChoices \ {-1} : PatternRemoveNote(v, index)

SpecEdit == Init /\ [][NextEdit]_vars

----------------------------------------------------------------------------
(* Project persistence.  An XML element is a record: `has` names the       *)
(* attributes and children present in it, and the fields hold their        *)
(* values.  The XML text is a sequence of chunks, one per declaration, tag *)
(* of the root or child element of the root; its length stands for the     *)
(* byte length of the text.                                                *)

\* Query*Attribute and FirstChildElement: the value when present
Attr(el, name, default) == IF name \in el.has THEN el[name] ELSE default

HexDigits ==
    <<"0", "1", "2", "3", "4", "5", "6", "7", "8", "9", "a", "b", "c", "d", "e", "f">>

\* snprintf "%x" of static_cast<unsigned char>(c): no leading zero
HexByteUnpadded(c) ==
    LET u == c % 256
    IN  IF u < 16 THEN <<HexDigits[u + 1]>>
        ELSE <<HexDigits[(u \div 16) + 1], HexDigits[(u % 16) + 1]>>

\* snprintf(buf, sizeof(buf), "%02x", static_cast<unsigned char>(c))
HexByte(c) ==
    LET u == c % 256
    IN  <<HexDigits[(u \div 16) + 1], HexDigits[(u % 16) + 1]>>

\* the loop that appends the two characters of every byte to hexStr
RECURSIVE EncodeHex(_)
EncodeHex(bytes) ==
    IF bytes = <<>> THEN <<>> ELSE HexByte(Head(bytes)) \o EncodeHex(Tail(bytes))

\* sscanf(byteStr, "%02x", &byteVal) on two characters and the push_back
\* of static_cast<char>(byteVal), char signed: the bytes appended, none
\* when the first character is no hex digit
ScanHexByte(hi, lo) ==
    LET IsHexDigit(ch) == \E i \in 1 .. 16 : HexDigits[i] = ch
        HexValue(ch)   == (CHOOSE i \in 1 .. 16 : HexDigits[i] = ch) - 1
        ToChar(u)      == IF u >= 128 THEN u - 256 ELSE u
    IN  IF ~IsHexDigit(hi) THEN <<>>
        ELSE IF ~IsHexDigit(lo) THEN <<ToChar(HexValue(hi))>>
        ELSE <<ToChar(16 * HexValue(hi) + HexValue(lo))>>

\* the read loop of VoiceState::fromXML from byte i on
RECURSIVE DecodeHexFrom(_, _, _)
DecodeHexFrom(i, size, hexData) ==
    IF i < size /\ 2 * i + 2 <= Len(hexData)
    THEN ScanHexByte(hexData[2 * i + 1], hexData[2 * i + 2])
            \o DecodeHexFrom(i + 1, size, hexData)
    ELSE <<>>

\* a mixer, patch or pattern child that the element does not have
NoChild ==
    [has |-> {}, volume |-> 0, pan |-> 0, sendA |-> 0, sendB |-> 0, mute |-> 0, solo |-> 0,
     size |-> 0, text |-> <<>>, bars |-> 0, swing |-> 0, notes |-> <<>>]

\* MIDINote::toXML
NoteToXML(n) ==
    [has |-> {"start", "duration", "pitch", "velocity"},
     start |-> n.startBeat, duration |-> n.duration,
     pitch |-> n.pitch, velocity |-> n.velocity]

\* MIDINote::fromXML
NoteFromXML(el) ==
    MIDINote(Attr(el, "start", 0), Attr(el, "duration", TicksPerBeat),
             Clamp(Attr(el, "pitch", 60), 0, 127) % 256,
             Clamp(Attr(el, "velocity", 100), 1, 127) % 256)

\* Pattern::toXML
PatternToXML(pat) ==
    [NoChild EXCEPT !.has = {"bars", "swing"}, !.bars = pat.bars, !.swing = pat.swing,
                    !.notes = [i \in 1 .. Len(pat.notes) |-> NoteToXML(pat.notes[i])]]

\* Pattern::fromXML
PatternFromXML(pat, el) ==
    [notes |-> SortNotes([i \in 1 .. Len(el.notes) |-> NoteFromXML(el.notes[i])]),
     bars  |-> Attr(el, "bars", pat.bars),
     swing |-> Attr(el, "swing", pat.swing)]

\* VoiceState::toXML
VoiceToXML(voice, index) ==
    [el |-> "voice",
     has |-> {"index", "name", "mixer", "pattern"}
                \cup (IF voice.patchData # <<>> THEN {"patch"} ELSE {}),
     index |-> index, name |-> voice.name,
     mixer |-> [NoChild EXCEPT
                   !.has = {"volume", "pan", "sendA", "sendB", "mute", "solo"},
                   !.volume = voice.volume, !.pan = voice.pan,
                   !.sendA = voice.sendA, !.sendB = voice.sendB,
                   !.mute = IF voice.mute THEN 1 ELSE 0,
                   !.solo = IF voice.solo THEN 1 ELSE 0],
     patch |-> IF voice.patchData # <<>>
               THEN [NoChild EXCEPT !.has = {"size"}, !.size = Len(voice.patchData),
                                    !.text = EncodeHex(voice.patchData)]
               ELSE NoChild,
     pattern |-> PatternToXML(voice.pattern)]

\* VoiceState::fromXML
VoiceFromXML(voice, el) ==
    LET m == el.mixer
        mixed == IF "mixer" \in el.has
                 THEN [voice EXCEPT !.volume = Attr(m, "volume", @),
                                    !.pan = Attr(m, "pan", @),
                                    !.sendA = Attr(m, "sendA", @),
                                    !.sendB = Attr(m, "sendB", @),
                                    !.mute = IF "mute" \in m.has THEN m.mute # 0 ELSE @,
                                    !.solo = IF "solo" \in m.has THEN m.solo # 0 ELSE @]
                 ELSE voice
    IN  [mixed EXCEPT
            !.name = Attr(el, "name", @),
            !.patchData = IF "patch" \in el.has /\ el.patch.text # <<>>
                          THEN DecodeHexFrom(0, Attr(el.patch, "size", 0), el.patch.text)
                          ELSE @,
            !.pattern = IF "pattern" \in el.has THEN PatternFromXML(@, el.pattern) ELSE @]

\* GlobalFXSlot::toXML
SlotToXML(slot, index) ==
    [has |-> {"index", "type", "enabled"}, index |-> index, type |-> slot.type,
     enabled |-> IF slot.enabled THEN 1 ELSE 0]

\* GlobalFXSlot::fromXML
SlotFromXML(slot, el) ==
    [type |-> Attr(el, "type", slot.type), enabled |-> Attr(el, "enabled", 1) # 0]

\* the slot loop of GrooveboxProject::fromXML
RECURSIVE SlotsFromXML(_, _)
SlotsFromXML(globalFX, slots) ==
    IF slots = <<>> THEN globalFX
    ELSE LET el    == Head(slots)
             index == Attr(el, "index", 0)
         IN  SlotsFromXML(IF index >= 0 /\ index < NUM_GLOBAL_FX
                          THEN [globalFX EXCEPT ![index] = SlotFromXML(@, el)]
                          ELSE globalFX,
                          Tail(slots))

\* the voice loop of GrooveboxProject::fromXML
RECURSIVE VoicesFromXML(_, _)
VoicesFromXML(voices, items) ==
    IF items = <<>> THEN voices
    ELSE LET el    == Head(items)
             index == Attr(el, "index", 0)
         IN  VoicesFromXML(IF el.el = "voice" /\ index >= 0 /\ index < NUM_VOICES
                           THEN [voices EXCEPT ![index] = VoiceFromXML(@, el)]
                           ELSE voices,
                           Tail(items))

\* GrooveboxProject::toXML: the children of the root element
ProjectToXML(p) ==
    << [el |-> "global",
        has |-> {"tempo", "loop_bars", "swing", "master_volume", "global_fx"},
        tempo |-> p.tempo, loop_bars |-> p.loopBars, swing |-> p.swing,
        master_volume |-> p.masterVolume,
        global_fx |-> [i \in 1 .. NUM_GLOBAL_FX |-> SlotToXML(p.globalFX[i - 1], i - 1)]] >>
    \o [i \in 1 .. NUM_VOICES |-> VoiceToXML(p.voices[i - 1], i - 1)]
    \o << [el |-> "meta",
           has |-> {"name", "author", "created", "modified"}
                      \cup (IF p.comment # "" THEN {"comment"} ELSE {})
                      \cup (IF p.tags # <<>> THEN {"tags"} ELSE {}),
           name |-> p.projectName, author |-> p.author,
           created |-> p.createdDate_, modified |-> p.modifiedDate_,
           comment |-> p.comment, tags |-> p.tags] >>

\* the first child element of the root with the given name
FirstChildElement(items, name) ==
    LET at == {i \in 1 .. Len(items) : items[i].el = name}
    IN  IF at = {} THEN [el |-> name, has |-> {}]
        ELSE [items[CHOOSE i \in at : \A j \in at : i <= j] EXCEPT !.has = @ \cup {"found"}]

\* GrooveboxProject::fromXML on a document with the root element
ProjectFromXML(p, items) ==
    LET g  == FirstChildElement(items, "global")
        p1 == IF "found" \in g.has
              THEN [p EXCEPT !.tempo = Attr(g, "tempo", @),
                             !.loopBars = Attr(g, "loop_bars", @),
                             !.swing = Attr(g, "swing", @),
                             !.masterVolume = Attr(g, "master_volume", @),
                             !.globalFX = IF "global_fx" \in g.has
                                          THEN SlotsFromXML(@, g.global_fx) ELSE @]
              ELSE p
        p2 == [p1 EXCEPT !.voices = VoicesFromXML(@, items)]
        m  == FirstChildElement(items, "meta")
    IN  IF "found" \in m.has
        THEN [p2 EXCEPT !.projectName = Attr(m, "name", @),
                        !.author = Attr(m, "author", @),
                        !.createdDate_ = Attr(m, "created", @),
                        !.modifiedDate_ = Attr(m, "modified", @),
                        !.comment = IF "comment" \in m.has /\ m.comment # "" THEN m.comment ELSE @,
                        !.tags = IF "tags" \in m.has
                                 THEN SelectSeq(m.tags, LAMBDA t : t # "")
                                 ELSE <<>>]
        ELSE p2

\* a chunk of XML text that is no child element of the root: the
\* declaration "?xml", the root's tags "root" and "/root", and "<" for
\* text that is not well formed
Chunk(name) == [el |-> name, has |-> {}]

\* doc.Accept(&printer); printer.Str()
PrintXML(items) == <<Chunk("?xml"), Chunk("root")>> \o items \o <<Chunk("/root")>>

\* doc.Parse(text): an error for an empty text, for text that is not well
\* formed, and for a root element that is not closed; otherwise whether the
\* document has the root element surgebox-project, and its children
ParseXML(text) ==
    LET opens  == {i \in 1 .. Len(text) : text[i] = Chunk("root")}
        closes == {i \in 1 .. Len(text) : text[i] = Chunk("/root")}
        first  == CHOOSE i \in opens : TRUE
        last   == CHOOSE i \in closes : TRUE
    IN  IF \/ text = <<>>
           \/ \E i \in 1 .. Len(text) : text[i] = Chunk("<")
           \/ Cardinality(opens) > 1 \/ Cardinality(closes) # Cardinality(opens)
           \/ (opens # {} /\ last < first)
        THEN [error |-> TRUE, root |-> FALSE, items |-> <<>>]
        ELSE IF opens = {}
        THEN [error |-> FALSE, root |-> FALSE, items |-> <<>>]
        ELSE [error |-> FALSE, root |-> TRUE,
              items |-> SubSeq(text, first + 1, last - 1)]

\* mech::endian_write_int32LE: the four bytes of the word in file order
EndianWriteLE(n) == [i \in 1 .. 4 |-> (n \div (256 ^ (i - 1))) % 256]

\* mech::endian_read_int32LE
EndianReadLE(b) == b[1] + 256 * b[2] + 65536 * b[3] + 16777216 * b[4]

\* static_cast<uint32_t>(xmlStr.size()), the text being shorter than 2^32
XmlSize(xmlStr) == Len(xmlStr)

\* the file saveToFile writes: ProjectHeader{} filled in, then the text
FileOf(xmlStr) ==
    [exists |-> TRUE, short |-> FALSE, tag |-> "SBOX",
     version |-> EndianWriteLE(PROJECT_FORMAT_VERSION),
     xmlsize |-> EndianWriteLE(XmlSize(xmlStr)),
     numVoices |-> EndianWriteLE(NUM_VOICES),
     reserved |-> [i \in 1 .. 8 |-> 0],
     payload |-> xmlStr]

\* a failed load that has reset the project
FailedLoadReset(p, now) == [ok |-> FALSE, project |-> Reset(now)]

\* `return false` of loadFromFile
FailedLoad(p, now) == [ok |-> FALSE, project |-> p]

\* the load that reads the whole rest of the file as the text
BytesToEnd(file, xmlsize) == Len(file.payload)

\* file.read(xmlStr.data(), xmlsize): the bytes asked for
BytesToRead(file, xmlsize) == xmlsize

\* fromXML on the project as it is
KeepBeforeLoad(p, now) == p

\* reset() before fromXML
ResetBeforeLoad(p, now) == Reset(now)

\* GrooveboxProject::loadFromFile with the header as read into the
\* uninitialized ProjectHeader
LoadOutcome(p, file, header, now) ==
    IF ~file.exists THEN FailedLoad(p, now)
    ELSE IF header.tag # "SBOX" THEN FailedLoad(p, now)
    ELSE IF EndianReadLE(header.version) > PROJECT_FORMAT_VERSION THEN FailedLoad(p, now)
    ELSE LET want == BytesToRead(file, EndianReadLE(header.xmlsize))
         IN  IF file.short \/ want > Len(file.payload) THEN FailedLoad(p, now)
             ELSE LET doc == ParseXML(SubSeq(file.payload, 1, want))
                  IN  IF doc.error THEN FailedLoad(p, now)
                      ELSE [ok |-> TRUE,
                            project |-> IF doc.root
                                        THEN ProjectFromXML(ResetBeforeLoad(p, now), doc.items)
                                        ELSE ResetBeforeLoad(p, now)]

\* getCurrentTimestamp(): the clock readings of the calls
Times == {1, 2}

\* GrooveboxProject::saveToFile; writable is whether the ofstream opens
SaveToFile(now, writable) ==
    LET stamped == [project EXCEPT !.modifiedDate_ = now]
    IN  /\ project' = stamped
        /\ disk' = IF writable THEN FileOf(PrintXML(ProjectToXML(stamped))) ELSE disk
        /\ synthCalls' = <<>>
        /\ midiBuffers' = EmptyBuffers
        /\ voiceChanged' = <<>>
        /\ lastOp' = Op("saveToFile", IF writable THEN 1 ELSE 0)
        /\ output' = NoOutput
        /\ UNCHANGED <<project_, synths_, playing_, currentBeat_, activeNotes_,
                       audio, ui, query, activeVoice_, hostVars>>

\* what file.read leaves in the ProjectHeader: the header of the file, or
\* anything when the file ends inside the header
HeadersRead(file) ==
    IF ~file.exists THEN {[tag |-> "", version |-> EndianWriteLE(0),
                           xmlsize |-> EndianWriteLE(0)]}
    ELSE IF file.short
    THEN [tag : {"SBOX", ""}, version : {EndianWriteLE(0), EndianWriteLE(PROJECT_FORMAT_VERSION + 1)},
          xmlsize : {EndianWriteLE(0), EndianWriteLE(Len(file.payload))}]
    ELSE {[tag |-> file.tag, version |-> file.version, xmlsize |-> file.xmlsize]}

\* GrooveboxProject::loadFromFile; lastOp.arg is the value returned
LoadFromFile(now) ==
    \E header \in HeadersRead(disk) :
        LET r == LoadOutcome(project, disk, header, now)
        IN  /\ project' = r.project
            /\ synthCalls' = <<>>
            /\ midiBuffers' = EmptyBuffers
            /\ voiceChanged' = <<>>
            /\ lastOp' = Op("loadFromFile", IF r.ok THEN 1 ELSE 0)
            /\ output' = NoOutput
            /\ UNCHANGED <<project_, synths_, playing_, currentBeat_, activeNotes_,
                           audio, ui, query, disk, activeVoice_, hostVars>>

\* the children of the root in files of other writers: a voice with half
\* a mixer; voices of index 4 and -1; FX slots of index 4, -1 and 2 and a
\* voice without index, with a patch text longer than its size and a
\* pattern whose notes have pitch and velocity outside the MIDI range or
\* no pitch and velocity at all
OlderDocuments ==
    LET VoiceElement(index, has, mixer, patch, pattern) ==
            [el |-> "voice", has |-> has, index |-> index, name |-> "Lead",
             mixer |-> mixer, patch |-> patch, pattern |-> pattern]
        HalfMixer == [NoChild EXCEPT !.has = {"volume", "mute"}, !.volume = 500, !.mute = 1]
        WidePattern ==
            [NoChild EXCEPT
                !.has = {"bars"}, !.bars = 2,
                !.notes = << [has |-> {"start", "duration", "pitch", "velocity"},
                              start |-> TicksPerBeat, duration |-> TicksPerBeat,
                              pitch |-> 200, velocity |-> 0],
                             [has |-> {"start"}, start |-> 0, duration |-> 0,
                              pitch |-> 0, velocity |-> 0] >>]
        Slot(has, index, type) == [has |-> has, index |-> index, type |-> type, enabled |-> 0]
        SlotsElement ==
            [el |-> "global", has |-> {"global_fx"}, tempo |-> 0, loop_bars |-> 0,
             swing |-> 0, master_volume |-> 0,
             global_fx |-> << Slot({"index", "type", "enabled"}, NUM_GLOBAL_FX, 5),
                              Slot({"index", "type"}, -1, 6),
                              Slot({"index", "type"}, 2, 7) >>]
    IN  { << VoiceElement(1, {"index", "mixer"}, HalfMixer, NoChild, NoChild) >>,
          << VoiceElement(NUM_VOICES, {"index", "name", "mixer"}, HalfMixer, NoChild, NoChild),
             VoiceElement(-1, {"index", "name", "pattern"}, NoChild, NoChild, WidePattern) >>,
          << SlotsElement,
             VoiceElement(0, {"name", "pattern", "patch"}, NoChild,
                          [NoChild EXCEPT !.has = {"size"}, !.size = 2,
                                          !.text = <<"0", "a", "f", "f", "7">>],
                          WidePattern) >> }

\* the files the host or another program can put at the path
ForeignFiles ==
    LET good == FileOf(PrintXML(ProjectToXML(InitProject)))
    IN  { [good EXCEPT !.tag = "RIFF"],
          [good EXCEPT !.version = EndianWriteLE(PROJECT_FORMAT_VERSION + 1)],
          [good EXCEPT !.xmlsize = EndianWriteLE(Len(good.payload) + 1)],
          [good EXCEPT !.payload[4] = Chunk("<")],
          [good EXCEPT !.short = TRUE],
          [good EXCEPT !.payload = @ \o <<Chunk("<")>>],
          FileOf(<<Chunk("?xml")>>) }
        \cup {[FileOf(PrintXML(d)) EXCEPT !.version = EndianWriteLE(0)] : d \in OlderDocuments}

\* setStateInformation writing the host's bytes to the path, or the file
\* being removed
WriteFile(file) ==
    /\ disk' = file
    /\ synthCalls' = <<>>
    /\ midiBuffers' = EmptyBuffers
    /\ voiceChanged' = <<>>
    /\ lastOp' = Op("writeFile", 0)
    /\ output' = NoOutput
    /\ UNCHANGED <<project, project_, synths_, playing_, currentBeat_, activeNotes_,
                   audio, ui, query, activeVoice_, hostVars>>

\* the synth of a voice: absent, or its raw patch bytes and patch name
SynthStates ==
    { [present |-> FALSE, raw |-> <<>>, name |-> ""],
      [present |-> TRUE, raw |-> <<>>, name |-> "Init"],
      [present |-> TRUE, raw |-> <<-128, 127, 15, 16, -1>>, name |-> ""] }

\* captureAllVoices for one voice: VoiceState::captureFromSynth
CaptureFromSynth(v, synth) ==
    /\ project' = IF ~synth.present THEN project
                  ELSE [project EXCEPT
                           !.voices[v].patchData = IF synth.raw # <<>> THEN synth.raw ELSE @,
                           !.voices[v].name = IF synth.name = "" THEN "Voice" ELSE synth.name]
    /\ synthCalls' = <<>>
    /\ midiBuffers' = EmptyBuffers
    /\ voiceChanged' = <<>>
    /\ lastOp' = Op("captureFromSynth", 0)
    /\ output' = NoOutput
    /\ UNCHANGED <<project_, synths_, playing_, currentBeat_, activeNotes_,
                   audio, ui, query, disk, activeVoice_, hostVars>>

\* notes recorded in a pattern
MaxStepNotes == 1

\* handleNoteOn in step record: PatternModel::addNote with the velocity
\* int(velocity * 127.0f) of the key press, and the listener's
\* saveToPattern
StepRecordNote(v, p, velocity) ==
    /\ Len(query.tree[v]) < MaxStepNotes
    /\ \E s \in SortedTrees(Append(query.tree[v], NoteTree(0, TicksPerBeat, p, velocity))) :
          /\ query' = [Unasked(query) EXCEPT !.tree[v] = s]
          /\ project' = [project EXCEPT !.voices[v].pattern = AutoSyncPattern(query, v, s)]
    /\ synthCalls' = <<>>
    /\ midiBuffers' = EmptyBuffers
    /\ voiceChanged' = <<>>
    /\ lastOp' = Op("stepRecord", 0)
    /\ output' = NoOutput
    /\ UNCHANGED <<project_, synths_, playing_, currentBeat_, activeNotes_,
                   audio, ui, disk, activeVoice_, hostVars>>

\* after SurgeBoxEngine::initialize: the project reset, the models empty
InitFile ==
    /\ project = Reset(0)
    /\ project_ = TRUE
    /\ synths_ = AllVoices
    /\ playing_ = FALSE
    /\ currentBeat_ = 0
    /\ activeNotes_ = <<>>
    /\ midiBuffers = EmptyBuffers
    /\ synthCalls = <<>>
    /\ lastOp = NoOp
    /\ audio = Idle
    /\ ui = Idle
    /\ query = [NoQuery EXCEPT !.tree = [v \in Voices |-> <<>>],
                             !.bars = [v \in Voices |-> 4]]
    /\ disk = NoFile
    /\ activeVoice_ = 0
    /\ voiceChanged = <<>>
    /\ initialized_ = TRUE
    /\ onVoiceChanged = TRUE
    /\ onPlayheadMoved = FALSE
    /\ output = NoOutput

\* saving and loading the project the editor and the synths fill
NextFile ==
    \/ \E now \in Times, writable \in BOOLEAN : SaveToFile(now, writable)
    \/ \E now \in Times : LoadFromFile(now)
    \/ \E synth \in SynthStates : CaptureFromSynth(0, synth)
    \/ \E velocity \in {0, 100} : StepRecordNote(2, 60, velocity)

SpecFile == InitFile /\ [][NextFile]_vars

\* loading the files found at the path
NextLoad ==
    \/ \E file \in ForeignFiles \cup {NoFile} : WriteFile(file)
    \/ \E now \in Times : LoadFromFile(now)
    \/ \E now \in Times, writable \in BOOLEAN : SaveToFile(now, writable)

SpecLoad == InitFile /\ [][NextLoad]_vars

----------------------------------------------------------------------------
(* Operations that take a note index or a voice index *)

\* a voice index accepted one past the last voice
VoiceUpToCount(voice) == voice >= 0 /\ voice <= NUM_VOICES

\* the negation of `voice < 0 || voice >= NUM_VOICES`
VoiceInRange(voice) == voice >= 0 /\ voice < NUM_VOICES

\* PatternModel::resizeNote for a duration of 1/16 beat or more, where
\* std::max(0.0625, newDuration) is newDuration; the property listener's
\* saveToPattern follows a setProperty that changes the value
ResizeNote(v, index, newDuration) ==
    LET tree    == query.tree[v]
        resized == IF index >= 0 /\ index < Len(tree)
                   THEN [tree EXCEPT ![index + 1] = NoteTree(@[1], newDuration, @[3], @[4])]
                   ELSE tree
    IN  /\ 16 * newDuration >= TicksPerBeat
        /\ query' = [Unasked(query) EXCEPT !.tree[v] = resized]
        /\ project' = IF resized = tree THEN project
                      ELSE [project EXCEPT !.voices[v].pattern = AutoSyncPattern(query, v, resized)]
        /\ synthCalls' = <<>>
        /\ midiBuffers' = EmptyBuffers
        /\ voiceChanged' = <<>>
        /\ lastOp' = Op("resizeNote", index)
        /\ output' = NoOutput
        /\ UNCHANGED <<project_, synths_, playing_, currentBeat_, activeNotes_,
                       audio, ui, disk, activeVoice_, hostVars>>

\* PatternModel::setNoteVelocity: std::clamp(velocity, 1, 127)
SetNoteVelocity(v, index, velocity) ==
    LET tree == query.tree[v]
        set  == IF index >= 0 /\ index < Len(tree)
                THEN [tree EXCEPT ![index + 1] = NoteTree(@[1], @[2], @[3], Clamp(velocity, 1, 127))]
                ELSE tree
    IN  /\ query' = [Unasked(query) EXCEPT !.tree[v] = set]
        /\ project' = IF set = tree THEN project
                      ELSE [project EXCEPT !.voices[v].pattern = AutoSyncPattern(query, v, set)]
        /\ synthCalls' = <<>>
        /\ midiBuffers' = EmptyBuffers
        /\ voiceChanged' = <<>>
        /\ lastOp' = Op("setNoteVelocity", index)
        /\ output' = NoOutput
        /\ UNCHANGED <<project_, synths_, playing_, currentBeat_, activeNotes_,
                       audio, ui, disk, activeVoice_, hostVars>>

\* SurgeBoxEngine::setActiveVoice
SetActiveVoice(voice) ==
    /\ activeVoice_' = IF VoiceInRange(voice) THEN voice ELSE activeVoice_
    /\ voiceChanged' = IF VoiceInRange(voice) /\ onVoiceChanged THEN <<voice>> ELSE <<>>
    /\ synthCalls' = <<>>
    /\ midiBuffers' = EmptyBuffers
    /\ lastOp' = Op("setActiveVoice", voice)
    /\ output' = NoOutput
    /\ UNCHANGED <<project, project_, synths_, playing_, currentBeat_, activeNotes_,
                   audio, ui, query, disk, hostVars>>

\* SurgeBoxEngine::getSynth; query.ab is the pointer returned: empty for
\* nullptr, else the voice whose synth it is
GetSynth(voice) ==
    /\ query' = [Unasked(query) EXCEPT
                    !.asked = "getSynth", !.voice = voice,
                    !.ab = IF ~VoiceInRange(voice) THEN <<>>
                           ELSE IF ~synths_[voice] THEN <<>>
                           ELSE <<voice>>]
    /\ synthCalls' = <<>>
    /\ midiBuffers' = EmptyBuffers
    /\ voiceChanged' = <<>>
    /\ lastOp' = Op("getSynth", voice)
    /\ output' = NoOutput
    /\ UNCHANGED <<project, project_, synths_, playing_, currentBeat_, activeNotes_,
                   audio, ui, disk, activeVoice_, hostVars>>

\* SurgeBoxEngine::getPatternModel; query.ab is the pointer returned
GetPatternModel(voice) ==
    /\ query' = [Unasked(query) EXCEPT
                    !.asked = "getPatternModel", !.voice = voice,
                    !.ab = IF ~VoiceInRange(voice) THEN <<>> ELSE <<voice>>]
    /\ synthCalls' = <<>>
    /\ midiBuffers' = EmptyBuffers
    /\ voiceChanged' = <<>>
    /\ lastOp' = Op("getPatternModel", voice)
    /\ output' = NoOutput
    /\ UNCHANGED <<project, project_, synths_, playing_, currentBeat_, activeNotes_,
                   audio, ui, disk, activeVoice_, hostVars>>

\* voice indices tried: below the first voice, a voice, past the last
VoiceChoices == {-1, 1, NUM_VOICES}

\* the files whose voice and slot elements carry indices out of range
IndexedFiles ==
    {FileOf(PrintXML(d)) : d \in {d \in OlderDocuments : Len(d) > 1}}

\* the engine's voices driven with indices inside and outside their
\* ranges, the one note of voice 1 edited, removed and indexed after its
\* removal, and projects loaded from files with indices out of range
NextIndex ==
    \/ \E voice \in VoiceChoices : SetActiveVoice(voice)
    \/ \E voice \in VoiceChoices : GetSynth(voice)
    \/ \E voice \in VoiceChoices : GetPatternModel(voice)
    \/ \E index \in IndexChoices : RemoveNote(1, index)
    \/ \E index \in IndexChoices : MoveNote(1, index, 0, 62)
    \/ \E index \in IndexChoices : ResizeNote(1, index, 2 * TicksPerBeat)
    \/ \E index \in IndexChoices : SetNoteVelocity(1, index, 0)
    \/ \E index \in IndexChoices \ {-1} : PatternRemoveNote(1, index)
    \/ \E file \in IndexedFiles : WriteFile(file)
    \/ LoadFromFile(1)

SpecIndex == InitEngine /\ [][NextIndex]_vars

----------------------------------------------------------------------------
(* SurgeBoxEngine: lifecycle, per-block processing and mixing.  A          *)
(* processor with its surge is what the sequencer holds as synths_[v]:     *)
(* setProcessors and shutdown assign both together.                        *)

\* SurgeBoxEngine::setProcessors
SetProcessors(processors) == SetSynths(processors)

\* the patch names the synths report to initialize()
PatchNames == {"", "Lead"}

\* initialize() without its early return
InitializesAgain == FALSE

\* `if (initialized_) return true;`
ReturnsEarly == initialized_

\* SurgeBoxEngine::syncPatternModelsFromProject: loadFromPattern of every
\* voice's project pattern into the model that auto-syncs to it; the
\* project it leaves
SyncedProject(p, q) ==
    [p EXCEPT !.voices =
        [v \in Voices |->
            [@[v] EXCEPT !.pattern =
                LoadAutoSynced(q.tree[v], q.bars[v], q.swing[v], p.voices[v].pattern).pattern]]]

\* the models it leaves
SyncedModels(p, q) ==
    LET loaded(v) == LoadAutoSynced(q.tree[v], q.bars[v], q.swing[v], p.voices[v].pattern)
    IN  [q EXCEPT !.tree  = [v \in Voices |-> loaded(v).tree],
                  !.bars  = [v \in Voices |-> loaded(v).bars],
                  !.swing = [v \in Voices |-> loaded(v).swing]]

\* SurgeBoxEngine::initialize; lastOp.arg is the value returned
Initialize(patchName, now) ==
    /\ IF ReturnsEarly
       THEN UNCHANGED <<project, project_, query, initialized_>>
       ELSE LET named == [Reset(now) EXCEPT !.voices =
                             [v \in Voices |->
                                 IF synths_[v]
                                 THEN [@[v] EXCEPT !.name = IF patchName = "" THEN "Init"
                                                             ELSE patchName]
                                 ELSE @[v]]]
            IN  /\ project_' = TRUE
                /\ project' = SyncedProject(named, query)
                /\ query' = SyncedModels(named, Unasked(query))
                /\ initialized_' = TRUE
    /\ synthCalls' = <<>>
    /\ midiBuffers' = EmptyBuffers
    /\ voiceChanged' = <<>>
    /\ lastOp' = Op("initialize", 1)
    /\ output' = NoOutput
    /\ UNCHANGED <<synths_, playing_, currentBeat_, activeNotes_, audio, ui,
                   disk, activeVoice_, onVoiceChanged, onPlayheadMoved>>

\* the allNotesOff calls of shutdown(), one per processor with a surge,
\* written as calls of pitch -1
AllNotesOff ==
    LET bound == SelectSeq([i \in 1 .. NUM_VOICES |-> i - 1], LAMBDA v : synths_[v])
    IN  [i \in 1 .. Len(bound) |-> [voice |-> bound[i], pitch |-> -1]]

\* shutdown() that clears the synth pointers before it stops the sequencer
StopsAfterClearing(active) == <<>>

\* the releaseNote calls of sequencer_.stop() in shutdown(), which runs
\* before sequencer_.setSynths({})
StopsBeforeClearing(active) == ReleaseAllActive(active)

\* SurgeBoxEngine::shutdown: the observers cleared, sequencer_.stop(),
\* sequencer_.setSynths({}), allNotesOff on each processor and the
\* processors dropped
Shutdown ==
    /\ IF ~initialized_
       THEN /\ synthCalls' = <<>>
            /\ UNCHANGED <<onVoiceChanged, onPlayheadMoved, playing_, activeNotes_,
                           currentBeat_, synths_, initialized_>>
       ELSE /\ onVoiceChanged' = FALSE
            /\ onPlayheadMoved' = FALSE
            /\ playing_' = FALSE
            /\ synthCalls' = StopsBeforeClearing(activeNotes_) \o AllNotesOff
            /\ activeNotes_' = <<>>
            /\ currentBeat_' = 0
            /\ synths_' = NoVoices
            /\ initialized_' = FALSE
    /\ midiBuffers' = EmptyBuffers
    /\ voiceChanged' = <<>>
    /\ lastOp' = Op("shutdown", 0)
    /\ output' = NoOutput
    /\ UNCHANGED <<project, project_, audio, ui, query, disk, activeVoice_>>

\* the mixer that skips muted voices and ignores solo
RenderedUnlessMuted(v) == synths_[v] /\ ~project.voices[v].mute

\* the tests of the voice loop of mixVoices: a processor with a surge,
\* `anySolo && !voice.solo` and `!anySolo && voice.mute`
Rendered(v) ==
    /\ synths_[v]
    /\ ~(AnySolo /\ ~project.voices[v].solo)
    /\ ~(~AnySolo /\ project.voices[v].mute)

\* SurgeBoxEngine::mixVoices: for each voice rendered, in index order, the
\* time data given to its synth and the gains its block is added with
MixVoices(blockStartBeat) ==
    LET order == SelectSeq([i \in 1 .. NUM_VOICES |-> i - 1], Rendered)
    IN  [i \in 1 .. Len(order) |->
            LET voice == project.voices[order[i]]
            IN  [voice |-> order[i], tempo |-> project.tempo, ppqPos |-> blockStartBeat,
                 gainL |-> (voice.volume * (IF 1000 - voice.pan < 1000 THEN 1000 - voice.pan
                                            ELSE 1000)) \div 1000,
                 gainR |-> (voice.volume * (IF 1000 + voice.pan < 1000 THEN 1000 + voice.pan
                                            ELSE 1000)) \div 1000]]

\* the playhead notification that is made whenever an observer is registered
NotifiesWhenRegistered(cursor) == IF onPlayheadMoved THEN <<cursor>> ELSE <<>>

\* the end of process(): onPlayheadMoved(getPositionBeats()) when the
\* observer holds a function and the sequencer is playing
NotifiesPlayhead(cursor) == IF onPlayheadMoved /\ playing_ THEN <<cursor>> ELSE <<>>

\* process() that tests the sequencer alone before advancing it
AdvancesUninitialized == ProcessRuns

\* the sequencer advances in process(): past the `!initialized_` return
\* and past the early return of SequencerEngine::process
EngineAdvances == initialized_ /\ ProcessRuns

\* SurgeBoxEngine::process.  output.cleared: numSamples floats of each
\* channel were zeroed; the samples are then the sum over output.mix of
\* the voices' blocks times their gains, times output.masterVolume
EngineProcess(numSamples) ==
    LET r == ProcessBlock(currentBeat_, activeNotes_, EmptyBuffers, numSamples,
                          SampleRate, AllVoices)
        advances == EngineAdvances
        cursor   == IF advances THEN r.currentBeat ELSE currentBeat_
    IN  /\ IF advances
           THEN /\ currentBeat_' = r.currentBeat
                /\ activeNotes_' = r.active
                /\ midiBuffers' = r.bufs
           ELSE /\ midiBuffers' = IF initialized_ THEN EmptyBuffers ELSE midiBuffers
                /\ UNCHANGED <<currentBeat_, activeNotes_>>
        /\ output' = IF ~initialized_
                     THEN [numSamples |-> numSamples, cleared |-> TRUE, mix |-> <<>>,
                           masterVolume |-> 1000, playhead |-> <<>>]
                     ELSE [numSamples |-> numSamples, cleared |-> TRUE,
                           mix |-> MixVoices(currentBeat_),
                           masterVolume |-> project.masterVolume,
                           playhead |-> NotifiesPlayhead(cursor)]
        /\ synthCalls' = <<>>
        /\ voiceChanged' = <<>>
        /\ lastOp' = [name |-> "engineProcess", arg |-> numSamples, present |-> AllVoices,
                      wrapped |-> IF advances THEN r.wrapped ELSE FALSE,
                      overlap |-> FALSE]
        /\ UNCHANGED <<project, project_, synths_, playing_, audio, ui, query,
                       disk, activeVoice_, initialized_, onVoiceChanged, onPlayheadMoved>>

\* the editor assigning or clearing engine_.onVoiceChanged
SetOnVoiceChanged(on) ==
    /\ onVoiceChanged' = on
    /\ synthCalls' = <<>>
    /\ midiBuffers' = EmptyBuffers
    /\ voiceChanged' = <<>>
    /\ lastOp' = Op("onVoiceChanged", 0)
    /\ output' = NoOutput
    /\ UNCHANGED <<project, project_, synths_, playing_, currentBeat_, activeNotes_,
                   audio, ui, query, disk, activeVoice_, initialized_, onPlayheadMoved>>

\* a client assigning or clearing the public member onPlayheadMoved
SetOnPlayheadMoved(on) ==
    /\ onPlayheadMoved' = on
    /\ synthCalls' = <<>>
    /\ midiBuffers' = EmptyBuffers
    /\ voiceChanged' = <<>>
    /\ lastOp' = Op("onPlayheadMoved", 0)
    /\ output' = NoOutput
    /\ UNCHANGED <<project, project_, synths_, playing_, currentBeat_, activeNotes_,
                   audio, ui, query, disk, activeVoice_, initialized_, onVoiceChanged>>

\* the engine as constructed: no processors, no project bound to the
\* sequencer, not initialized, no observers
InitHost ==
    /\ project = Reset(0)
    /\ project_ = FALSE
    /\ synths_ = NoVoices
    /\ playing_ = FALSE
    /\ currentBeat_ = 0
    /\ activeNotes_ = <<>>
    /\ midiBuffers = EmptyBuffers
    /\ synthCalls = <<>>
    /\ lastOp = NoOp
    /\ audio = Idle
    /\ ui = Idle
    /\ query = [NoQuery EXCEPT !.tree = [v \in Voices |-> <<>>],
                             !.bars = [v \in Voices |-> 4]]
    /\ disk = NoFile
    /\ activeVoice_ = 0
    /\ voiceChanged = <<>>
    /\ initialized_ = FALSE
    /\ onVoiceChanged = FALSE
    /\ onPlayheadMoved = FALSE
    /\ output = NoOutput

\* the host preparing and releasing the engine, the transport, one recorded
\* note and blocks of audio
NextHost ==
    \/ \E processors \in {AllVoices, AllButVoice(2)} : SetProcessors(processors)
    \/ \E patchName \in PatchNames, now \in Times : Initialize(patchName, now)
    \/ Shutdown
    \/ Play
    \/ Stop
    \/ EngineProcess(4)
    \/ \E on \in BOOLEAN : SetOnVoiceChanged(on)
    \/ \E on \in BOOLEAN : SetOnPlayheadMoved(on)
    \/ StepRecordNote(2, 60, 100)

SpecHost == InitHost /\ [][NextHost]_vars

\* blocks mixed while voices are muted and soloed and the host changes the
\* processors it passes
NextRender ==
    \/ \E processors \in {AllVoices, AllButVoice(1)} : SetProcessors(processors)
    \/ \E v \in MuteVoices, on \in BOOLEAN : SetMute(v, on)
    \/ \E v \in SoloVoices, on \in BOOLEAN : SetSolo(v, on)
    \/ Play
    \/ Stop
    \/ \E n \in BlockSizes : EngineProcess(n)

SpecRender == InitEngine /\ [][NextRender]_vars

\* GrooveboxProject::reset called on the project as it is; lastOp.arg is
\* the timestamp it read
ProjectReset(now) ==
    /\ project' = Reset(now)
    /\ synthCalls' = <<>>
    /\ midiBuffers' = EmptyBuffers
    /\ voiceChanged' = <<>>
    /\ output' = NoOutput
    /\ lastOp' = Op("reset", now)
    /\ UNCHANGED <<project_, synths_, playing_, currentBeat_, activeNotes_,
                   audio, ui, query, disk, activeVoice_, hostVars>>

\* projects filled from files, by the editor and by the synths, and reset
NextReset ==
    \/ \E now \in Times : ProjectReset(now)
    \/ \E file \in ForeignFiles : WriteFile(file)
    \/ \E now \in Times : LoadFromFile(now)
    \/ \E t \in Tempos : SetTempo(t)
    \/ \E v \in MuteVoices, on \in BOOLEAN : SetMute(v, on)
    \/ \E synth \in SynthStates : CaptureFromSynth(0, synth)
    \/ StepRecordNote(2, 60, 100)

SpecReset == InitFile /\ [][NextReset]_vars

----------------------------------------------------------------------------
(* The loop end and the project's loopBars *)

\* what another program changes in the file of the project: loop_bars
\* alone, or loop_bars and the bars attribute of every pattern
LoopBarsEdits ==
    { [loop_bars |-> 1, emptied |-> FALSE], [loop_bars |-> 8, emptied |-> TRUE] }

\* the children of the root of the file of project p as another program
\* rewrites them: loop_bars replaced and, with emptied, every pattern's
\* bars attribute set to 0
EditedDocument(p, loop_bars, emptied) ==
    LET doc == ProjectToXML(p)
    IN  [i \in 1 .. Len(doc) |->
            IF doc[i].el = "global" THEN [doc[i] EXCEPT !.loop_bars = loop_bars]
            ELSE IF doc[i].el = "voice" /\ emptied THEN [doc[i] EXCEPT !.pattern.bars = 0]
            ELSE doc[i]]

\* the transport run to the end of the loop while the bars of voice 1 are
\* set and project files with other loop_bars values are loaded
NextLoop ==
    \/ \E p \in BOOLEAN : SetProject(p)
    \/ Play
    \/ \E beat \in {Bar - 2, 2 * Bar - 2} : SetPositionBeats(beat)
    \/ Process(4, AllVoices)
    \/ \E b \in 1 .. MaxBars : SetBars(1, b)
    \/ \E edit \in LoopBarsEdits :
          WriteFile(FileOf(PrintXML(EditedDocument(project, edit.loop_bars, edit.emptied))))
    \/ LoadFromFile(1)

SpecLoop == Init /\ [][NextLoop]_vars

----------------------------------------------------------------------------
(* Notes entered one after the other *)

\* PatternModel::addNote of a one-beat note of pitch 60 that begins one
\* beat, or a beat and a half, into the bar: where the first note of voice
\* 0, or of voice 1, ends
NextLegato ==
    \/ \E v \in {0, 1}, start \in {TicksPerBeat, TicksPerBeat + TicksPerBeat \div 2} :
          AddNote(v, start, 60)
    \/ Play
    \/ Stop
    \/ \E n \in BlockSizes : Process(n, AllVoices)
    \/ \E t \in Tempos : SetTempo(t)

SpecLegato == InitEngine /\ [][NextLegato]_vars

----------------------------------------------------------------------------
(* Vocabulary of the properties *)

CountEvents(buf, type, p) ==
    Cardinality({i \in 1 .. Len(buf) : buf[i].type = type /\ buf[i].pitch = p})

CountActive(active, v, p) ==
    Cardinality({i \in 1 .. Len(active) :
                    active[i].voiceIndex = v /\ active[i].pitch = p})

CountCalls(calls, v, p) ==
    Cardinality({i \in 1 .. Len(calls) : calls[i].voice = v /\ calls[i].pitch = p})

PitchesOf(seq) == {seq[i].pitch : i \in 1 .. Len(seq)}

Cancels == {"stop", "setPositionBeats"}

----------------------------------------------------------------------------
(* C1  No stuck notes *)

\* C1 as stated: after any stop() or setPositionBeats() the active set is
\* empty and a releaseNote was emitted for every note that was active when
\* the call began.
C1_EveryActiveNoteReleased ==
    [][lastOp'.name \in Cancels =>
          /\ activeNotes_' = <<>>
          /\ \A v \in Voices, p \in PitchesOf(activeNotes_) \cup PitchesOf(synthCalls') :
                CountCalls(synthCalls', v, p) = CountActive(activeNotes_, v, p)]_vars

\* C1 amended: after any stop() or setPositionBeats() the active set is
\* empty, and a releaseNote was emitted for every note that was active when
\* the call began on a voice that has a synth; an active note of a voice
\* without a synth is dropped with no call.
C1_NoStuckNotes ==
    [][lastOp'.name \in Cancels =>
          /\ activeNotes_' = <<>>
          /\ \A v \in Voices, p \in PitchesOf(activeNotes_) \cup PitchesOf(synthCalls') :
                CountCalls(synthCalls', v, p) =
                    IF synths_[v] THEN CountActive(activeNotes_, v, p) ELSE 0]_vars

\* a stop() that released notes of two voices
C1_Witness ==
    /\ lastOp.name = "stop"
    /\ activeNotes_ = <<>>
    /\ \E i, j \in 1 .. Len(synthCalls) : synthCalls[i].voice # synthCalls[j].voice

----------------------------------------------------------------------------
(* C5  Idempotent play *)

\* C5: play() while playing changes nothing; play() from Stopped only sets
\* the playing flag; the cursor and the active notes keep their values.
C5_IdempotentPlay ==
    [][lastOp'.name = "play" =>
          /\ playing_'
          /\ currentBeat_' = currentBeat_
          /\ activeNotes_' = activeNotes_
          /\ midiBuffers' = EmptyBuffers
          /\ UNCHANGED <<project, project_, synths_>>]_vars

\* play() on a transport that is mid-pattern with notes sounding
C5_Witness ==
    /\ lastOp.name = "play"
    /\ currentBeat_ # 0
    /\ activeNotes_ # <<>>

----------------------------------------------------------------------------
(* C6  stop() leaves the transport Stopped at beat 0 *)

\* C6: after stop(), whatever the state before, isPlaying() is false and
\* the cursor is at beat 0.
C6_StopResets ==
    lastOp.name = "stop" => (~playing_ /\ currentBeat_ = 0)

\* a stop() that cut sounding notes, hence hit a transport that had advanced
C6_Witness ==
    /\ lastOp.name = "stop"
    /\ synthCalls # <<>>

----------------------------------------------------------------------------
(* C7  setPositionBeats *)

\* C7: setPositionBeats(beat) sets the cursor to exactly beat in both
\* transport states and leaves the playing flag unchanged.
C7_SeekSetsCursor ==
    [][lastOp'.name = "setPositionBeats" =>
          /\ currentBeat_' = lastOp'.arg
          /\ playing_' = playing_]_vars

\* a seek past the loop end while playing
C7_Witness ==
    /\ lastOp.name = "setPositionBeats"
    /\ playing_
    /\ project_
    /\ currentBeat_ > GetLoopEndBeat

----------------------------------------------------------------------------
(* C8  process() without playing or without a project *)

\* C8: process() is a no-op when the transport is not playing or no project
\* is bound: cursor and active notes are unchanged and no event is put in
\* any voice's buffer.
C8_ProcessNoOp ==
    [][(lastOp'.name = "process" /\ (~playing_ \/ ~project_)) =>
          /\ currentBeat_' = currentBeat_
          /\ activeNotes_' = activeNotes_
          /\ midiBuffers' = EmptyBuffers
          /\ playing_' = playing_]_vars

\* process() on a playing transport with sounding notes and no project
C8_Witness ==
    /\ lastOp.name = "process"
    /\ playing_
    /\ ~project_
    /\ activeNotes_ # <<>>
    /\ currentBeat_ # 0

----------------------------------------------------------------------------
(* C9  Cursor advance per block *)

\* C9: while playing, with endBeat = cursor + blockBeats, the cursor after
\* process() is endBeat if endBeat < loopEnd and endBeat - loopEnd otherwise.
C9_CursorAdvance ==
    [][(lastOp'.name = "process" /\ playing_ /\ project_) =>
          LET blockBeats == lastOp'.arg * ((project.tempo * TicksPerBeat) \div
                                           (60 * SampleRate))
              endBeat    == currentBeat_ + blockBeats
              loopEnd    == MaxOf({project.voices[v].pattern.bars * Bar : v \in Voices})
          IN  currentBeat_' = IF endBeat < loopEnd THEN endBeat ELSE endBeat - loopEnd]_vars

\* a block that ended exactly on the loop end
C9_Witness ==
    /\ lastOp.name = "process"
    /\ lastOp.wrapped
    /\ playing_ /\ project_
    /\ currentBeat_ = 0

----------------------------------------------------------------------------
(* C2  Loop-wrap triggering *)

NotesOf(v) == project.voices[v].pattern.notes

\* note i of voice v starts before the loop end L and ends after it, in a
\* pattern as long as the loop, and is the only note of its pitch
CrossesLoopEnd(v, i, L) ==
    LET n == NotesOf(v)[i]
    IN  /\ PatternLength(v) = L
        /\ n.startBeat < L
        /\ n.startBeat + n.duration > L
        /\ \A j \in 1 .. Len(NotesOf(v)) : NotesOf(v)[j].pitch = n.pitch => j = i

\* the block of this step: [s, e) in beats before any wrap
BlockEnd(numSamples) ==
    currentBeat_ + numSamples * BeatsPerSample(project.tempo, SampleRate)

\* C2, the wrapping block: a block that starts at or before the note's
\* start and crosses the loop end holds exactly one note-on for the note,
\* and the note ends the block either released once or active once with
\* its end rebased to end - loopEnd.
C2_WrapBlock ==
    [][(lastOp'.name = "process" /\ playing_ /\ project_ /\ lastOp'.wrapped) =>
          \A v \in Voices : \A i \in 1 .. Len(NotesOf(v)) :
              LET n   == NotesOf(v)[i]
                  L   == GetLoopEndBeat
                  rem == BlockEnd(lastOp'.arg) - L
                  r   == n.startBeat + n.duration - L
              IN  (/\ CrossesLoopEnd(v, i, L)
                   /\ Audible(v) /\ lastOp'.present[v]
                   /\ 0 <= currentBeat_ /\ currentBeat_ <= n.startBeat
                   /\ rem <= n.startBeat
                   /\ CountActive(activeNotes_, v, n.pitch) = 0)
                  => /\ CountEvents(midiBuffers'[v], "on", n.pitch) = 1
                     /\ IF r < rem
                        THEN /\ CountEvents(midiBuffers'[v], "off", n.pitch) = 1
                             /\ CountActive(activeNotes_', v, n.pitch) = 0
                        ELSE /\ CountEvents(midiBuffers'[v], "off", n.pitch) = 0
                             /\ CountActive(activeNotes_', v, n.pitch) = 1
                             /\ \E k \in 1 .. Len(activeNotes_') :
                                   activeNotes_'[k] = ActiveNote(v, n.pitch, r)]_vars

\* C2, the blocks after the wrap: while the note is active with the rebased
\* end r, a block [s, e) that does not wrap emits its note-off (once, and
\* drops it from the active set) exactly when s <= r < e.
C2_ReleaseBlock ==
    [][(lastOp'.name = "process" /\ playing_ /\ project_ /\ ~lastOp'.wrapped) =>
          \A v \in Voices : \A i \in 1 .. Len(NotesOf(v)) :
              LET n == NotesOf(v)[i]
                  L == GetLoopEndBeat
                  e == BlockEnd(lastOp'.arg)
                  r == n.startBeat + n.duration - L
              IN  (/\ CrossesLoopEnd(v, i, L)
                   /\ lastOp'.present[v]
                   /\ e <= n.startBeat
                   /\ CountActive(activeNotes_, v, n.pitch) = 1
                   /\ \E k \in 1 .. Len(activeNotes_) :
                         activeNotes_[k] = ActiveNote(v, n.pitch, r))
                  => IF currentBeat_ <= r /\ r < e
                     THEN /\ CountEvents(midiBuffers'[v], "off", n.pitch) = 1
                          /\ CountActive(activeNotes_', v, n.pitch) = 0
                     ELSE /\ CountEvents(midiBuffers'[v], "off", n.pitch) = 0
                          /\ CountActive(activeNotes_', v, n.pitch) = 1]_vars

\* C2: loop-wrap triggering is correct: one note-on in the wrapping block,
\* none after the wrap, and one note-off, in the block that contains the
\* rebased end beat.
C2_LoopWrapTriggering == C2_WrapBlock /\ C2_ReleaseBlock

\* the block [3.8, 4.2) of a 4-beat loop has wrapped: the note that starts
\* at 3.9 got its note-on and is active with end 0.4
C2_Witness ==
    /\ lastOp.name = "process" /\ lastOp.wrapped
    /\ GetLoopEndBeat = Bar
    /\ currentBeat_ = 2
    /\ CountEvents(midiBuffers[0], "on", 62) = 1
    /\ \E k \in 1 .. Len(activeNotes_) :
          activeNotes_[k] = ActiveNote(0, 62, TicksPerBeat \div 2 - 1)

----------------------------------------------------------------------------
(* C3  Cancellation while a block is in flight *)

\* C3: when stop() or setPositionBeats() began while a process() block was
\* in flight, then once both have returned the active set is empty, every
\* note-on of that block has a note-off in the block or a releaseNote from
\* the cancel, and after stop() the transport is stopped at beat 0.
C3_CancelWhileInFlight ==
    (/\ lastOp.name \in {"stop", "stopButton", "setPositionBeats"}
     /\ lastOp.overlap
     /\ AudioIdle /\ UiIdle)
    => /\ activeNotes_ = <<>>
       /\ \A v \in Voices : \A p \in PitchesOf(midiBuffers[v]) :
             CountEvents(midiBuffers[v], "on", p) <=
                 CountEvents(midiBuffers[v], "off", p) + CountCalls(synthCalls, v, p)
       /\ lastOp.name \in {"stop", "stopButton"} => (~playing_ /\ currentBeat_ = 0)

----------------------------------------------------------------------------
(* C4  The active-note list is not shared *)

\* the statements of process() that read or write activeNotes_
AudioTouchesActiveNotes ==
    audio.pc \in {"trigger1", "release1", "rebase", "trigger2", "release2"}

\* the statements of stop(), setPositionBeats() and getPlayingNotes() that
\* read or write activeNotes_
UiTouchesActiveNotes ==
    ui.pc \in {"stopRelease", "stopClear", "seekRelease", "seekClear", "getPlayingNotes"}

\* C4: the control thread never reads or writes the active-note list while
\* a process() call on the audio thread is reading or writing it.
C4_ActiveNotesNotShared == ~(AudioTouchesActiveNotes /\ UiTouchesActiveNotes)

----------------------------------------------------------------------------
(* C10  Half-open start query *)

\* a query result element as a note, whichever query returned it
AsNote(x) ==
    IF query.asked = "model" THEN MIDINote(x[1], x[2], x[3], x[4]) ELSE x

Answer(r) == [i \in 1 .. Len(r) |-> AsNote(r[i])]

\* result holds exactly the pattern's notes with lo <= startBeat < hi
ExactlyStartingIn(result, lo, hi) ==
    LET notes == project.voices[query.voice].pattern.notes
    IN  \A n \in ElementsOf(notes) \cup ElementsOf(Answer(result)) :
            CountIn(Answer(result), n) =
                IF lo <= n.startBeat /\ n.startBeat < hi THEN CountIn(notes, n) ELSE 0

\* C10: getNotesStartingInRange(a, b) returns exactly the notes with
\* a <= startBeat < b, so for a <= b <= c the results for [a, b) and [b, c)
\* are disjoint and together equal the result for [a, c).
C10_HalfOpenQuery ==
    query.asked # "none" =>
        /\ ExactlyStartingIn(query.ab, query.a, query.b)
        /\ ExactlyStartingIn(query.bc, query.b, query.c)
        /\ ExactlyStartingIn(query.ac, query.a, query.c)
        /\ (query.a <= query.b /\ query.b <= query.c) =>
              /\ ElementsOf(query.ab) \cap ElementsOf(query.bc) = {}
              /\ \A x \in ElementsOf(query.ab) \cup ElementsOf(query.bc)
                          \cup ElementsOf(query.ac) :
                    CountIn(query.ab, x) + CountIn(query.bc, x) = CountIn(query.ac, x)

\* notes at 0.0, 0.9 and 1.0 queried by the pattern for [0, 1) and [1, 1.1):
\* the note on the boundary is in the second result only
C10_Witness ==
    /\ query.asked = "pattern"
    /\ query.a = 0 /\ query.b = TicksPerBeat /\ query.c = TicksPerBeat + 1
    /\ {n.startBeat : n \in ElementsOf(project.voices[query.voice].pattern.notes)}
           = {0, TicksPerBeat - 1, TicksPerBeat}
    /\ Len(query.ab) = 2
    /\ Len(query.bc) = 1
    /\ query.bc[1].startBeat = TicksPerBeat

----------------------------------------------------------------------------
(* C11  Sort invariant *)

NonDecreasing(notes) ==
    \A i \in 1 .. Len(notes) - 1 :
        \/ notes[i].startBeat < notes[i + 1].startBeat
        \/ /\ notes[i].startBeat = notes[i + 1].startBeat
           /\ notes[i].pitch <= notes[i + 1].pitch

\* C11: after any sequence of addNote and moveNote calls, on the Pattern or
\* on its auto-syncing PatternModel, the Pattern's notes are non-decreasing
\* in (startBeat, pitch) when the call returns.
C11_SortInvariant ==
    lastOp.name \in {"addNote", "moveNote", "Pattern::addNote"} =>
        \A v \in Voices : NonDecreasing(project.voices[v].pattern.notes)

\* a moveNote that left the model's children with pitch 62 before pitch 60
\* at one start beat, and the pattern full
C11_Witness ==
    /\ lastOp.name = "moveNote"
    /\ \E v \in EditVoices :
          /\ Len(project.voices[v].pattern.notes) = MaxEditNotes
          /\ \E i \in 1 .. Len(query.tree[v]) - 1 :
                /\ query.tree[v][i][1] = query.tree[v][i + 1][1]
                /\ query.tree[v][i][3] > query.tree[v][i + 1][3]

----------------------------------------------------------------------------
(* C12  Mute/solo precedence for triggering *)

\* the claim's policy: the soloed voices if any voice is soloed, otherwise
\* the voices that are not muted
PassesPolicy(v) ==
    IF \E w \in Voices : project.voices[w].solo
    THEN project.voices[v].solo
    ELSE ~project.voices[v].mute

\* a note of voice v starts inside the block of this step, which does not
\* reach the end of the loop or of the voice's pattern
StartsInBlock(v, numSamples) ==
    /\ 0 <= currentBeat_
    /\ BlockEnd(numSamples) < project.voices[v].pattern.bars * Bar
    /\ \E i \in 1 .. Len(NotesOf(v)) :
          /\ currentBeat_ <= NotesOf(v)[i].startBeat
          /\ NotesOf(v)[i].startBeat < BlockEnd(numSamples)

\* C12: process() emits note-ons only for the voices that pass the policy
\* (soloed voices if any voice is soloed, whatever their mute flags;
\* otherwise the voices not muted), and for each of them that has a note
\* starting in the block.
C12_MuteSoloPrecedence ==
    [][(lastOp'.name = "process" /\ playing_ /\ project_) =>
          \A v \in Voices :
              /\ ~PassesPolicy(v) => CountEvents(midiBuffers'[v], "on", 60)
                                       + CountEvents(midiBuffers'[v], "on", 62) = 0
              /\ (PassesPolicy(v) /\ lastOp'.present[v]
                    /\ StartsInBlock(v, lastOp'.arg))
                  => \E i \in 1 .. Len(midiBuffers'[v]) : midiBuffers'[v][i].type = "on"]_vars

\* voice 0 soloed and muted, voice 1 neither: the first block of the loop
\* has voice 0's note-on and nothing for voice 1
C12_Witness ==
    /\ lastOp.name = "process"
    /\ project.voices[0].solo /\ project.voices[0].mute
    /\ ~project.voices[1].solo /\ ~project.voices[1].mute
    /\ currentBeat_ > TicksPerBeat \div 2
    /\ currentBeat_ < TicksPerBeat
    /\ CountEvents(midiBuffers[0], "on", 60) = 1
    /\ midiBuffers[1] = <<>>
    /\ \E k \in 1 .. Len(activeNotes_) : activeNotes_[k].voiceIndex = 0

----------------------------------------------------------------------------
(* C14  Sample offsets stay inside the block *)

\* every event of the buffer has its sample position in 0 .. numSamples - 1
OffsetsWithin(buf, numSamples) ==
    \A i \in 1 .. Len(buf) : buf[i].pos >= 0 /\ buf[i].pos <= numSamples - 1

\* C14: every note-on and note-off that process(numSamples, ...) places in
\* a voice's buffer has a sample offset in [0, numSamples - 1], with and
\* without a loop wrap and for every base offset.
C14_OffsetsInBlock ==
    lastOp.name = "process" =>
        \A v \in Voices : OffsetsWithin(midiBuffers[v], lastOp.arg)

\* a wrapping block that placed a note-on after the loop point and a
\* note-off before it
C14_Witness ==
    /\ lastOp.name = "process"
    /\ lastOp.wrapped
    /\ \E v \in Voices : \E i, j \in 1 .. Len(midiBuffers[v]) :
          /\ midiBuffers[v][i].type = "on"
          /\ midiBuffers[v][i].pos > 0
          /\ midiBuffers[v][j].type = "off"

----------------------------------------------------------------------------
(* C13  End-to-end timing *)

\* the block of this step contains beat x of the loop, in this pass or,
\* past the loop point, in the next one
InBlock(x, numSamples) ==
    \/ currentBeat_ <= x /\ x < BlockEnd(numSamples)
    \/ BlockEnd(numSamples) >= GetLoopEndBeat /\ x + GetLoopEndBeat < BlockEnd(numSamples)

\* the sample positions of the events of one type and pitch
PositionsOf(buf, type, p) ==
    {buf[i].pos : i \in {j \in 1 .. Len(buf) : buf[j].type = type /\ buf[j].pitch = p}}

\* C13: in playback from beat 0 a note's note-on is emitted in exactly the
\* block that contains its start, at the sample of its start (sample 0 for
\* a note at the block's first beat), and the note-off of a note ending
\* inside the loop in exactly the block that contains start + duration.
C13_EndToEndTiming ==
    [][(lastOp'.name = "process" /\ playing_) =>
          \A v \in Voices : \A i \in 1 .. Len(NotesOf(v)) :
              LET n   == NotesOf(v)[i]
                  bps == BeatsPerSample(project.tempo, SampleRate)
              IN  /\ CountEvents(midiBuffers'[v], "on", n.pitch)
                        = IF InBlock(n.startBeat, lastOp'.arg) THEN 1 ELSE 0
                  /\ (currentBeat_ <= n.startBeat /\ n.startBeat < BlockEnd(lastOp'.arg)
                        /\ ~lastOp'.wrapped)
                      => PositionsOf(midiBuffers'[v], "on", n.pitch)
                           = {(n.startBeat - currentBeat_) \div bps}
                  /\ n.startBeat + n.duration < GetLoopEndBeat
                      => CountEvents(midiBuffers'[v], "off", n.pitch)
                           = IF InBlock(n.startBeat + n.duration, lastOp'.arg) THEN 1 ELSE 0]_vars

\* the single-note project at tempo 120 after the block that holds beat 1:
\* the note-off is in the buffer and the note is no longer active
C13_Witness ==
    /\ lastOp.name = "process"
    /\ project = SingleNoteProject
    /\ currentBeat_ > TicksPerBeat
    /\ CountEvents(midiBuffers[0], "off", 60) = 1
    /\ activeNotes_ = <<>>

----------------------------------------------------------------------------
(* C15  Save / load round trip *)

\* the file at the path is the one saveToFile writes for the project as it is
SavedAsIs == disk = FileOf(PrintXML(ProjectToXML(project)))

\* tempo, patterns, mixer settings, patch bytes and metadata are equal
SameSavedFields(p, q) ==
    /\ p.tempo = q.tempo
    /\ \A v \in Voices :
          /\ p.voices[v].pattern = q.voices[v].pattern
          /\ p.voices[v].volume = q.voices[v].volume
          /\ p.voices[v].pan = q.voices[v].pan
          /\ p.voices[v].sendA = q.voices[v].sendA
          /\ p.voices[v].sendB = q.voices[v].sendB
          /\ p.voices[v].mute = q.voices[v].mute
          /\ p.voices[v].solo = q.voices[v].solo
          /\ p.voices[v].patchData = q.voices[v].patchData
    /\ p.projectName = q.projectName
    /\ p.author = q.author
    /\ p.comment = q.comment
    /\ p.tags = q.tags
    /\ p.createdDate_ = q.createdDate_
    /\ p.modifiedDate_ = q.modifiedDate_

\* C15: loadFromFile of the file that saveToFile wrote for the project
\* succeeds and leaves tempo, every voice's notes, bars and swing, its
\* mixer settings and patch bytes, and the metadata equal to what they
\* were.
C15_RoundTrip ==
    [][(lastOp'.name = "loadFromFile" /\ SavedAsIs) =>
          (lastOp'.arg = 1 /\ SameSavedFields(project, project'))]_vars

----------------------------------------------------------------------------
(* C16  A failed load leaves the project alone *)

\* the file cannot be opened, ends inside its header, has another tag, a
\* version above the supported one, fewer bytes after the header than its
\* xmlsize, or a text of xmlsize bytes that does not parse
CannotLoad(file) ==
    \/ ~file.exists
    \/ file.short
    \/ file.tag # "SBOX"
    \/ EndianReadLE(file.version) > PROJECT_FORMAT_VERSION
    \/ EndianReadLE(file.xmlsize) > Len(file.payload)
    \/ ParseXML(SubSeq(file.payload, 1, EndianReadLE(file.xmlsize))).error

\* C16: loadFromFile of a file that cannot be opened, has the wrong tag, a
\* version above the supported one, a payload shorter than xmlSize or a
\* text that does not parse returns false, and whenever it returns false
\* every field of the project has its prior value.
C16_FailedLoadIsClean ==
    [][lastOp'.name = "loadFromFile" =>
          /\ CannotLoad(disk) => lastOp'.arg = 0
          /\ lastOp'.arg = 0 => project' = project]_vars

\* a project with contents of its own after the load of a text that does
\* not parse was refused
C16_Witness ==
    /\ lastOp.name = "loadFromFile"
    /\ lastOp.arg = 0
    /\ disk.exists /\ ~disk.short /\ disk.tag = "SBOX"
    /\ EndianReadLE(disk.version) = PROJECT_FORMAT_VERSION
    /\ EndianReadLE(disk.xmlsize) = Len(disk.payload)
    /\ project.voices[1].volume = 500
    /\ project.voices[1].mute

----------------------------------------------------------------------------
(* C17  What a load leaves depends on the file, not on the project *)

\* a project with no field at its default
FullProject ==
    [tempo |-> 90, loopBars |-> 2, swing |-> 1, masterVolume |-> 500,
     voices |-> [v \in Voices |->
                    [name |-> "Pad", patchData |-> <<1, 2>>,
                     pattern |-> [notes |-> <<MIDINote(0, TicksPerBeat, 64, 80)>>,
                                  bars |-> 2, swing |-> 1],
                     volume |-> 700, pan |-> -500, sendA |-> 100, sendB |-> 200,
                     mute |-> TRUE, solo |-> TRUE]],
     globalFX |-> [i \in 0 .. (NUM_GLOBAL_FX - 1) |-> [type |-> 9, enabled |-> FALSE]],
     projectName |-> "Song", author |-> "A", comment |-> "c", tags |-> <<"t">>,
     createdDate_ |-> 0, modifiedDate_ |-> 0]

PriorProjects == {Reset(0), InitProject, FullProject}

\* the header of a file that does not end inside its header
HeaderOf(file) == [tag |-> file.tag, version |-> file.version, xmlsize |-> file.xmlsize]

LoadedItems(file) == ParseXML(SubSeq(file.payload, 1, EndianReadLE(file.xmlsize))).items

----------------------------------------------------------------------------
(* C18  Patch bytes as hex text *)

\* the voice element of index v in the file saveToFile wrote
SavedVoice(v) == disk.payload[4 + v]

\* byte sequences of one and two bytes over the corners of the char range
\* and of the hex digits
PatchSamples ==
    LET corners == {-128, -1, 0, 9, 10, 15, 16, 127}
    IN  {<<c>> : c \in -128 .. 127} \cup {<<c, d>> : c \in corners, d \in corners}

\* the text is two lowercase hex digits per byte
TwoHexDigitsPerByte(text, bytes) ==
    /\ Len(text) = 2 * Len(bytes)
    /\ \A i \in 1 .. Len(text) : \E k \in 1 .. 16 : HexDigits[k] = text[i]

\* C18: a non-empty patch is written as two lowercase hex characters per
\* byte with size equal to the byte count, and reading the text back two
\* characters at a time yields the identical byte sequence.
C18_PatchHexRoundTrip ==
    /\ \A bytes \in PatchSamples :
          /\ TwoHexDigitsPerByte(EncodeHex(bytes), bytes)
          /\ DecodeHexFrom(0, Len(bytes), EncodeHex(bytes)) = bytes
    /\ (lastOp.name = "saveToFile" /\ lastOp.arg = 1) =>
          \A v \in Voices :
              LET bytes == project.voices[v].patchData
                  patch == SavedVoice(v).patch
              IN  bytes # <<>> =>
                      /\ "patch" \in SavedVoice(v).has
                      /\ patch.size = Len(bytes)
                      /\ TwoHexDigitsPerByte(patch.text, bytes)
                      /\ VoiceFromXML(ResetVoice(v), SavedVoice(v)).patchData = bytes

\* the patch captured from the synth, with bytes below 16 and above 127
\* as unsigned, is in the file just saved
C18_Witness ==
    /\ lastOp.name = "saveToFile"
    /\ lastOp.arg = 1
    /\ project.voices[0].patchData = <<-128, 127, 15, 16, -1>>
    /\ SavedVoice(0).patch.text = <<"8", "0", "7", "f", "0", "f", "1", "0", "f", "f">>

----------------------------------------------------------------------------
(* C19  The container header *)

\* C19: the file saveToFile writes starts with the tag SBOX, version 1,
\* xmlSize equal to the length of the XML text that follows the header,
\* numVoices 4 and eight zero reserved words; and loadFromFile reads
\* exactly xmlSize bytes after the header: a text of xmlSize bytes that
\* parses is loaded whatever follows it in the file.
C19_ContainerHeader ==
    /\ (lastOp.name = "saveToFile" /\ lastOp.arg = 1) =>
          /\ disk.tag = "SBOX"
          /\ disk.version = <<1, 0, 0, 0>>
          /\ EndianReadLE(disk.xmlsize) = Len(disk.payload)
          /\ disk.payload = PrintXML(ProjectToXML(project))
          /\ disk.numVoices = <<4, 0, 0, 0>>
          /\ disk.reserved = <<0, 0, 0, 0, 0, 0, 0, 0>>
    /\ (lastOp.name = "loadFromFile" /\ disk.exists /\ ~disk.short /\ disk.tag = "SBOX"
          /\ EndianReadLE(disk.version) <= PROJECT_FORMAT_VERSION
          /\ EndianReadLE(disk.xmlsize) <= Len(disk.payload)
          /\ ~ParseXML(SubSeq(disk.payload, 1, EndianReadLE(disk.xmlsize))).error)
        => lastOp.arg = 1

\* a file with bytes after the xmlSize bytes of its text has been loaded
C19_Witness ==
    /\ lastOp.name = "loadFromFile"
    /\ lastOp.arg = 1
    /\ EndianReadLE(disk.xmlsize) < Len(disk.payload)
    /\ project.voices[0].pattern.notes = InitNotes[0]

----------------------------------------------------------------------------
(* C20  Indices out of range *)

\* the program's state apart from what one call returns or emits
Settled ==
    <<project, project_, synths_, playing_, currentBeat_, activeNotes_,
      query.tree, disk, activeVoice_>>

IndexWithin(el, n) == Attr(el, "index", 0) >= 0 /\ Attr(el, "index", 0) < n

\* a document without its voice elements and slot elements whose index
\* attribute is out of range
InRangeOnly(items) ==
    LET kept == SelectSeq(items, LAMBDA el : el.el # "voice" \/ IndexWithin(el, NUM_VOICES))
    IN  [i \in 1 .. Len(kept) |->
            IF kept[i].el = "global" /\ "global_fx" \in kept[i].has
            THEN [kept[i] EXCEPT !.global_fx =
                     SelectSeq(@, LAMBDA sl : IndexWithin(sl, NUM_GLOBAL_FX))]
            ELSE kept[i]]

\* C20: removeNote, moveNote, resizeNote and setNoteVelocity of a pattern
\* model with a note index outside 0 .. numNotes - 1, and Pattern::removeNote
\* with an index of numNotes or more, change nothing; setActiveVoice with a
\* voice outside 0 .. 3 changes nothing and calls no voice-changed callback;
\* getSynth and getPatternModel return null for such a voice; and a file
\* loads as the same file without its voice and slot elements of index
\* out of range.
C20_OutOfRangeAbsorbed ==
    [][/\ (/\ lastOp'.name \in {"removeNote", "moveNote", "resizeNote", "setNoteVelocity"}
           /\ (lastOp'.arg < 0 \/ lastOp'.arg >= Len(query.tree[1])))
          => Settled' = Settled
       /\ (/\ lastOp'.name = "Pattern::removeNote"
           /\ lastOp'.arg >= Len(project.voices[1].pattern.notes))
          => Settled' = Settled
       /\ (/\ lastOp'.name = "setActiveVoice"
           /\ lastOp'.arg \notin 0 .. NUM_VOICES - 1)
          => Settled' = Settled /\ voiceChanged' = <<>>
       /\ (/\ lastOp'.name \in {"getSynth", "getPatternModel"}
           /\ lastOp'.arg \notin 0 .. NUM_VOICES - 1)
          => Settled' = Settled /\ query'.ab = <<>>
       /\ (lastOp'.name = "loadFromFile" /\ lastOp'.arg = 1)
          => project' = ProjectFromXML(Reset(1), InRangeOnly(ParseXML(disk.payload).items))
      ]_vars

\* the one note of voice 1 resized at index 1, with voice 1 active and a
\* project loaded from a file that has a voice element of index 4
C20_Witness ==
    /\ lastOp.name = "resizeNote"
    /\ lastOp.arg = 1
    /\ Len(query.tree[1]) = 1
    /\ activeVoice_ = 1
    /\ disk.exists
    /\ \E i \in 1 .. Len(disk.payload) :
          disk.payload[i].el = "voice" /\ disk.payload[i].index = NUM_VOICES
    /\ project.voices[0].volume = ResetVoice(0).volume
    /\ project.voices[2].pattern.bars = ResetVoice(2).pattern.bars

----------------------------------------------------------------------------
(* C21  process() on an engine that is not initialized *)

\* C21: process() on an engine that is not initialized (never initialized,
\* or after shutdown) zeroes every output sample of the block, renders no
\* voice, notifies no observer and leaves the cursor, the active notes and
\* the event buffers as they were, whether or not play() was called.
C21_UninitializedProcessIsSilent ==
    [][(lastOp'.name = "engineProcess" /\ ~initialized_)
        => /\ output'.cleared
           /\ output'.numSamples = lastOp'.arg
           /\ output'.mix = <<>>
           /\ output'.playhead = <<>>
           /\ currentBeat_' = currentBeat_
           /\ activeNotes_' = activeNotes_
           /\ midiBuffers' = midiBuffers
           /\ playing_' = playing_
      ]_vars

\* a block processed after shutdown and play(), with the project still
\* bound to the sequencer, a note at the cursor and an observer registered
C21_Witness ==
    /\ lastOp.name = "engineProcess"
    /\ ~initialized_
    /\ playing_
    /\ project_
    /\ onPlayheadMoved
    /\ project.voices[2].pattern.notes # <<>>
    /\ output.cleared
    /\ currentBeat_ = 0

----------------------------------------------------------------------------
(* C22  initialize() *)

\* the project, the pattern models and the transport
ProjectAndTransport ==
    <<project, project_, query.tree, playing_, currentBeat_, activeNotes_>>

WithDefaultNames(p) ==
    [p EXCEPT !.voices = [v \in Voices |-> [@[v] EXCEPT !.name = ResetVoice(v).name]]]

----------------------------------------------------------------------------
(* C23  shutdown() *)

\* the releaseNote calls in a sequence of synth calls, and the active
\* notes, of one voice and pitch
ReleaseCalls(calls, v, p) ==
    Cardinality({i \in 1 .. Len(calls) : calls[i].voice = v /\ calls[i].pitch = p})

ActiveOf(active, v, p) ==
    Cardinality({i \in 1 .. Len(active) :
                    active[i].voiceIndex = v /\ active[i].pitch = p})

\* C23: shutdown() on an initialized engine leaves the transport stopped,
\* the cursor at 0 and no active note, has called releaseNote once for
\* every active note on the synth its voice had when shutdown() began,
\* leaves no synth bound and neither observer registered, and leaves the
\* engine not initialized; shutdown() on an engine that is not initialized
\* changes nothing and calls nothing.
C23_ShutdownStopsAndReleases ==
    [][lastOp'.name = "shutdown"
        => IF initialized_
           THEN /\ ~playing_'
                /\ currentBeat_' = 0
                /\ activeNotes_' = <<>>
                /\ \A v \in Voices, p \in 0 .. 127 :
                      ReleaseCalls(synthCalls', v, p) =
                          (IF synths_[v] THEN ActiveOf(activeNotes_, v, p) ELSE 0)
                /\ synths_' = NoVoices
                /\ ~onVoiceChanged'
                /\ ~onPlayheadMoved'
                /\ ~initialized_'
                /\ <<project, project_, query.tree>>' = <<project, project_, query.tree>>
           ELSE /\ synthCalls' = <<>>
                /\ <<project, project_, query.tree, synths_, playing_, currentBeat_,
                      activeNotes_, initialized_, onVoiceChanged, onPlayheadMoved,
                      disk, activeVoice_>>'
                     = <<project, project_, query.tree, synths_, playing_, currentBeat_,
                         activeNotes_, initialized_, onVoiceChanged, onPlayheadMoved,
                         disk, activeVoice_>>
      ]_vars

\* shutdown() has released the sounding note of voice 2 on its synth
C23_Witness ==
    /\ lastOp.name = "shutdown"
    /\ ReleaseCalls(synthCalls, 2, 60) = 1
    /\ ~initialized_
    /\ synths_ = NoVoices
    /\ activeNotes_ = <<>>

----------------------------------------------------------------------------
(* C24  The playhead notification *)

\* C24 as stated: every process() call notifies the playhead observer at
\* most once; exactly once, with the cursor after the block's advance, when
\* an observer is registered and the transport is playing at the end of the
\* block; never when the transport is stopped or no observer is registered.
C24_PlayheadNotifiedWhenPlaying ==
    [][lastOp'.name = "engineProcess"
        => output'.playhead = (IF onPlayheadMoved' /\ playing_'
                               THEN <<currentBeat_'>> ELSE <<>>)
      ]_vars

\* C24 amended: every process() call notifies the playhead observer at most
\* once; on an initialized engine exactly once, with the cursor after the
\* block's advance, when an observer is registered and the transport is
\* playing at the end of the block; never when the transport is stopped,
\* no observer is registered or the engine is not initialized.
C24_PlayheadNotifiedWhenInitialized ==
    [][lastOp'.name = "engineProcess"
        => output'.playhead = (IF initialized_' /\ onPlayheadMoved' /\ playing_'
                               THEN <<currentBeat_'>> ELSE <<>>)
      ]_vars

\* a block that advanced the cursor has notified the observer of the new
\* position
C24_Witness ==
    /\ lastOp.name = "engineProcess"
    /\ initialized_
    /\ playing_
    /\ onPlayheadMoved
    /\ currentBeat_ > 0
    /\ output.playhead = <<currentBeat_>>

----------------------------------------------------------------------------
(* C25  The voices mixed *)

\* the voices whose blocks were added to the output, in the order added
MixedVoices(out) == [i \in 1 .. Len(out.mix) |-> out.mix[i].voice]

\* C25: in every block of an initialized engine the voices rendered into
\* the output are, in index order and once each, exactly the voices that
\* have a synth and pass the mute/solo policy of triggering; a voice without
\* a synth is skipped, and every voice with a synth that is given a note-on
\* in the block is rendered in it.
C25_MixFollowsPolicy ==
    [][(lastOp'.name = "engineProcess" /\ initialized_)
        => /\ MixedVoices(output') =
                 SelectSeq([i \in 1 .. NUM_VOICES |-> i - 1],
                           LAMBDA v : synths_[v] /\ PassesPolicy(v))
           /\ \A v \in Voices :
                 (synths_[v] /\ \E i \in 1 .. Len(midiBuffers'[v]) :
                                   midiBuffers'[v][i].type = "on")
                     => \E i \in 1 .. Len(output'.mix) : output'.mix[i].voice = v
      ]_vars

\* a block mixed with voice 1, which has no synth, soloed together with
\* voice 0, and voice 0 muted: voice 0 alone is rendered and is given its
\* note-on
C25_Witness ==
    /\ lastOp.name = "engineProcess"
    /\ ~synths_[1]
    /\ project.voices[1].solo
    /\ project.voices[0].solo
    /\ project.voices[0].mute
    /\ MixedVoices(output) = <<0>>
    /\ CountEvents(midiBuffers[0], "on", 60) = 1

----------------------------------------------------------------------------
(* C26  reset() *)

\* C26: whatever the project held, after reset() the tempo is 120, loopBars
\* 4, swing 0, masterVolume 0.8; every voice has the name "Voice N" with N
\* its index plus one, an empty pattern of 4 bars, an empty patch, volume 1,
\* pan 0, no sends, mute and solo off; every FX slot is of type 0 and
\* enabled; the name is "Untitled"; author, comment and tags are empty; both
\* dates are the time of the call; and a reset() that follows a reset()
\* changes nothing but the dates.
C26_ResetRestoresDefaults ==
    [][lastOp'.name = "reset"
        => /\ project'.tempo = 120
           /\ project'.loopBars = 4
           /\ project'.swing = 0
           /\ project'.masterVolume = 800
           /\ \A v \in Voices :
                 /\ project'.voices[v].name =
                        <<"Voice 1", "Voice 2", "Voice 3", "Voice 4">>[v + 1]
                 /\ project'.voices[v].pattern = [notes |-> <<>>, bars |-> 4, swing |-> 0]
                 /\ project'.voices[v].patchData = <<>>
                 /\ project'.voices[v].volume = 1000
                 /\ project'.voices[v].pan = 0
                 /\ project'.voices[v].sendA = 0
                 /\ project'.voices[v].sendB = 0
                 /\ ~project'.voices[v].mute
                 /\ ~project'.voices[v].solo
           /\ DOMAIN project'.globalFX = 0 .. NUM_GLOBAL_FX - 1
           /\ \A i \in 0 .. NUM_GLOBAL_FX - 1 :
                 project'.globalFX[i] = [type |-> 0, enabled |-> TRUE]
           /\ project'.projectName = "Untitled"
           /\ project'.author = ""
           /\ project'.comment = ""
           /\ project'.tags = <<>>
           /\ project'.createdDate_ = lastOp'.arg
           /\ project'.modifiedDate_ = lastOp'.arg
           /\ lastOp.name = "reset"
                 => project' = [project EXCEPT !.createdDate_ = lastOp'.arg,
                                               !.modifiedDate_ = lastOp'.arg]
      ]_vars

\* reset() at time 2 of a project that held the note the pattern model of
\* voice 2 still holds
C26_Witness ==
    /\ lastOp.name = "reset"
    /\ lastOp.arg = 2
    /\ query.tree[2] # <<>>
    /\ project.voices[2].pattern.notes = <<>>
    /\ project.createdDate_ = 2
    /\ disk.exists

----------------------------------------------------------------------------
(* C27  The release rule *)

\* the audio thread makes its first or second releaseNotesEndingInRange
\* call in this step
ReleaseStep == audio.pc \in {"release1", "release2"} /\ audio'.pc # audio.pc

\* the range [s, e) of the call made in this step
ReleaseStart == IF audio.pc = "release1" THEN audio.startBeat ELSE 0

ReleaseEnd ==
    IF audio.pc = "release2" THEN audio.endBeat - audio.loopEnd
    ELSE IF audio.wraps THEN audio.loopEnd ELSE audio.endBeat

\* C27: a call releaseNotesEndingInRange(s, e) removes from the active set
\* exactly the notes with s <= endBeat < e, leaving every other note in
\* place with voice, pitch and end beat unchanged, and adds to the voice's
\* buffer one note-off of the note's pitch for each note removed and no
\* other event.
C27_ReleaseRule ==
    [][ReleaseStep
        => /\ activeNotes_' =
                 SelectSeq(activeNotes_,
                           LAMBDA a : ~(ReleaseStart <= a.endBeat /\ a.endBeat < ReleaseEnd))
           /\ \A v \in Voices :
                 /\ Len(midiBuffers'[v]) =
                        Len(midiBuffers[v])
                        + Cardinality({i \in 1 .. Len(activeNotes_) :
                              /\ activeNotes_[i].voiceIndex = v
                              /\ ReleaseStart <= activeNotes_[i].endBeat
                              /\ activeNotes_[i].endBeat < ReleaseEnd})
                 /\ \A p \in {60, 62} :
                       /\ CountEvents(midiBuffers'[v], "on", p) = CountEvents(midiBuffers[v], "on", p)
                       /\ CountEvents(midiBuffers'[v], "off", p) =
                              CountEvents(midiBuffers[v], "off", p) + ActiveOf(
                                  SelectSeq(activeNotes_,
                                            LAMBDA a : ReleaseStart <= a.endBeat
                                                       /\ a.endBeat < ReleaseEnd), v, p)
      ]_vars

\* after a release call one note is still active and the note-off of
\* another is in its voice's buffer
C27_Witness ==
    /\ audio.pc \in {"rebase", "store"}
    /\ activeNotes_ # <<>>
    /\ \E v \in Voices : CountEvents(midiBuffers[v], "off", 60) > 0

----------------------------------------------------------------------------
(* C28  The order of a wrapping block *)

\* the audio thread makes one call of the wrap branch in this step
WrapStep ==
    /\ audio.pc \in {"trigger1", "release1", "rebase", "trigger2", "release2"}
    /\ audio.wraps
    /\ audio'.pc # audio.pc

\* the call that follows each call of the wrap branch
WrapSuccessor(pc) ==
    CASE pc = "trigger1" -> "release1"
      [] pc = "release1" -> "rebase"
      [] pc = "rebase"   -> "trigger2"
      [] pc = "trigger2" -> "release2"
      [] pc = "release2" -> "store"

\* the sample of the block at which the loop ends, as an event can carry it
WrapSample ==
    Clamp(TruncDiv(audio.loopEnd - audio.startBeat, audio.bps), 0, audio.numSamples - 1)

EventsBefore(buf, pos) == SelectSeq(buf, LAMBDA ev : ev.pos < pos)

\* C28, the order: the calls of a wrapping block follow each other as
\* trigger [s, loopEnd), release [s, loopEnd), rebase, trigger [0, rem),
\* release [0, rem); the rebase step lowers the end beat of every active
\* note by loopEnd and changes nothing else, and no trigger call changes a
\* note that was already active.
C28_CallOrder ==
    [][WrapStep
        => /\ audio'.pc = WrapSuccessor(audio.pc)
           /\ audio.pc = "rebase"
                 => /\ Len(activeNotes_') = Len(activeNotes_)
                    /\ \A i \in 1 .. Len(activeNotes_) :
                          activeNotes_'[i] =
                              ActiveNote(activeNotes_[i].voiceIndex, activeNotes_[i].pitch,
                                         activeNotes_[i].endBeat - audio.loopEnd)
                    /\ midiBuffers' = midiBuffers
           /\ audio.pc \in {"trigger1", "trigger2"}
                 => /\ Len(activeNotes_') >= Len(activeNotes_)
                    /\ SubSeq(activeNotes_', 1, Len(activeNotes_)) = activeNotes_
      ]_vars

\* C28, the offsets: when the pre-wrap calls have returned no event lies
\* after the sample of the loop end; the post-wrap calls add no event
\* before it, and the note-on of a pattern note that starts at beat b of
\* [0, rem) lies at loopSampleOffset + b / beatsPerSample, clamped to the
\* block.
C28_SampleOffsets ==
    [][WrapStep
        => /\ audio.pc = "rebase"
                 => \A v \in Voices : \A i \in 1 .. Len(midiBuffers[v]) :
                        midiBuffers[v][i].pos <= WrapSample
           /\ audio.pc \in {"trigger2", "release2"}
                 => \A v \in Voices :
                        EventsBefore(midiBuffers'[v], WrapSample)
                            = EventsBefore(midiBuffers[v], WrapSample)
           /\ audio.pc = "trigger2"
                 => \A v \in Voices : \A i \in 1 .. Len(NotesOf(v)) :
                        LET n == NotesOf(v)[i]
                        IN  (/\ Audible(v)
                             /\ PatternLength(v) = audio.loopEnd
                             /\ n.startBeat < audio.endBeat - audio.loopEnd)
                            => \E k \in 1 .. Len(midiBuffers'[v]) :
                                  midiBuffers'[v][k] =
                                      NoteOn(n.pitch, n.velocity,
                                             Clamp(TruncDiv(audio.loopEnd - audio.startBeat,
                                                            audio.bps)
                                                   + TruncDiv(n.startBeat, audio.bps),
                                                   0, audio.numSamples - 1))
      ]_vars

\* C28: in a block that reaches the loop end the pre-wrap segment is
\* triggered and released first, then the end beat of every active note is
\* lowered by loopEnd once, then the post-wrap segment is triggered and
\* released from the base offset loopSampleOffset, so that no pre-wrap
\* event lies after a post-wrap event.
C28_WrapOrdering == C28_CallOrder /\ C28_SampleOffsets

\* a wrapping block that began before the loop end has made all its calls:
\* a buffer holds an event before the sample of the loop end and one after
C28_Witness ==
    /\ audio.pc = "store"
    /\ audio.wraps
    /\ audio.startBeat < audio.loopEnd
    /\ \E v \in Voices : \E i, j \in 1 .. Len(midiBuffers[v]) :
          /\ midiBuffers[v][i].pos < WrapSample
          /\ midiBuffers[v][j].pos > WrapSample

----------------------------------------------------------------------------
(* C29  The wrap of a voice's own pattern *)

\* a running block that stays inside the loop: one triggerNotesInRange call
\* on [currentBeat_, BlockEnd) with base offset 0
PatternStep == lastOp'.name = "process" /\ ProcessRuns /\ ~lastOp'.wrapped

\* the position of the block start in the pattern of voice v
WrappedStart(v) == currentBeat_ % PatternLength(v)

\* the beats of the block that lie after the end of the pattern of voice v
PatternRemainder(v, numSamples) ==
    WrappedStart(v) + (BlockEnd(numSamples) - currentBeat_) - PatternLength(v)

\* note n of voice v starts in [wrappedStart, patternLength) of the block
InFirstPart(v, n, numSamples) ==
    /\ WrappedStart(v) <= n.startBeat
    /\ n.startBeat < PatternLength(v)
    /\ n.startBeat < WrappedStart(v) + (BlockEnd(numSamples) - currentBeat_)

\* note n of voice v starts in [0, remainder) after the pattern's end
InSecondPart(v, n, numSamples) == n.startBeat < PatternRemainder(v, numSamples)

\* the beats from the block start to the note-on of note n
NoteOffsetBeats(v, n, numSamples) ==
    IF InFirstPart(v, n, numSamples)
    THEN n.startBeat - WrappedStart(v)
    ELSE (PatternLength(v) - WrappedStart(v)) + n.startBeat

TriggeredNotes(v, numSamples) ==
    {i \in 1 .. Len(NotesOf(v)) :
        \/ InFirstPart(v, NotesOf(v)[i], numSamples)
        \/ InSecondPart(v, NotesOf(v)[i], numSamples)}

\* C29: for an audible voice whose pattern of length L is shorter than the
\* loop, a block [s, e) no longer than L triggers exactly the notes that
\* start in [s mod L, L) and, when the block crosses the pattern's end, in
\* [0, remainder), each once: the note-on lies at the note's offset from
\* the block start, (start - s mod L) or (L - s mod L) + start, and the
\* active note ends at s + offset + duration (it is released in the same
\* block when that beat lies before e).
C29_PatternWrap ==
    [][PatternStep =>
          \A v \in Voices :
              LET numSamples == lastOp'.arg
                  bps == BeatsPerSample(project.tempo, SampleRate)
                  e   == BlockEnd(numSamples)
              IN  (/\ Audible(v) /\ lastOp'.present[v]
                   /\ PatternLength(v) < GetLoopEndBeat
                   /\ currentBeat_ >= 0
                   /\ e - currentBeat_ <= PatternLength(v))
                  => /\ Cardinality({k \in 1 .. Len(midiBuffers'[v]) :
                                        midiBuffers'[v][k].type = "on"})
                           = Cardinality(TriggeredNotes(v, numSamples))
                     /\ \A i \in TriggeredNotes(v, numSamples) :
                           LET n      == NotesOf(v)[i]
                               offset == NoteOffsetBeats(v, n, numSamples)
                               end    == currentBeat_ + offset + n.duration
                           IN  /\ CountEvents(midiBuffers'[v], "on", n.pitch)
                                     = Cardinality({j \in TriggeredNotes(v, numSamples) :
                                                       NotesOf(v)[j].pitch = n.pitch})
                               /\ \E k \in 1 .. Len(midiBuffers'[v]) :
                                     midiBuffers'[v][k] =
                                         NoteOn(n.pitch, n.velocity,
                                                Clamp(TruncDiv(offset, bps), 0,
                                                      numSamples - 1))
                               /\ IF end < e
                                  THEN \E k \in 1 .. Len(midiBuffers'[v]) :
                                          midiBuffers'[v][k] =
                                              NoteOff(n.pitch,
                                                      Clamp(TruncDiv(end - currentBeat_, bps),
                                                            0, numSamples - 1))
                                  ELSE \E k \in 1 .. Len(activeNotes_') :
                                          activeNotes_'[k] = ActiveNote(v, n.pitch, end)
      ]_vars

\* voice 0 keeps a one-bar pattern in a two-bar loop and a block that began
\* two ticks before the end of its pattern has run: the note at Bar - 1 and
\* the note at 0 each got a note-on, and the note at 0 is active with its
\* end in global beats
C29_Witness ==
    /\ lastOp.name = "process" /\ ~lastOp.wrapped
    /\ GetLoopEndBeat = 2 * Bar
    /\ PatternLength(0) = Bar
    /\ Bar < currentBeat_ /\ currentBeat_ < Bar + TicksPerBeat
    /\ CountEvents(midiBuffers[0], "on", 62) = 1
    /\ CountEvents(midiBuffers[0], "on", 60) = 1
    /\ \E k \in 1 .. Len(activeNotes_) :
          activeNotes_[k] = ActiveNote(0, 60, Bar + TicksPerBeat)

----------------------------------------------------------------------------
(* C30  The loop boundary *)

BarsOf(v) == project.voices[v].pattern.bars

\* L is the longest pattern in ticks, or one bar when no pattern is longer
IsLoopEnd(L) ==
    /\ L >= Bar
    /\ \A v \in Voices : L >= BarsOf(v) * Bar
    /\ L = Bar \/ \E v \in Voices : L = BarsOf(v) * Bar

LoopEndPolicy == CHOOSE L \in {Bar} \cup {BarsOf(v) * Bar : v \in Voices} : IsLoopEnd(L)

\* this step changes loopBars and nothing else of the project
LoopBarsAlone ==
    /\ project'.loopBars # project.loopBars
    /\ project' = [project EXCEPT !.loopBars = project'.loopBars]
    /\ project_' = project_

\* C30: getLoopEndBeat() is the longest pattern of the four voices,
\* bars * 4 beats, and never less than 4 beats, or 4 beats when no project
\* is bound; a running block wraps exactly when its end reaches that beat
\* and then leaves the cursor at the beats past it; a change of loopBars
\* alone leaves the loop end as it was.
C30_LoopBoundary ==
    [][/\ GetLoopEndBeat = IF project_ THEN LoopEndPolicy ELSE Bar
       /\ (lastOp'.name = "process" /\ ProcessRuns)
             => LET e == BlockEnd(lastOp'.arg)
                IN  IF e >= LoopEndPolicy
                    THEN lastOp'.wrapped /\ currentBeat_' = e - LoopEndPolicy
                    ELSE ~lastOp'.wrapped /\ currentBeat_' = e
       /\ LoopBarsAlone => GetLoopEndBeat' = GetLoopEndBeat
      ]_vars

\* a file with loop_bars = 1 was loaded into a project whose voice 1 has
\* two bars, and a block has wrapped at the end of the second bar
C30_Witness ==
    /\ lastOp.name = "process" /\ lastOp.wrapped
    /\ project.loopBars = 1
    /\ BarsOf(1) = 2
    /\ currentBeat_ < TicksPerBeat
    /\ disk.exists

----------------------------------------------------------------------------
(* C31  Active-note accounting *)

\* the pitches of the pattern notes and of the active notes
PitchesInPlay ==
    {activeNotes_[k].pitch : k \in 1 .. Len(activeNotes_)}
    \cup UNION {{NotesOf(v)[i].pitch : i \in 1 .. Len(NotesOf(v))} : v \in Voices}

\* C31: in a single-threaded run a process() block changes the number of
\* active notes of each voice and pitch by the note-ons of the block minus
\* its note-offs (a voice without a buffer gets no note-on and only loses
\* active notes); stop() and setPositionBeats() remove every active note;
\* no other call touches the active set.
C31_ActiveNoteAccounting ==
    [][/\ (lastOp'.name = "process" /\ ProcessRuns)
             => \A v \in Voices : \A p \in PitchesInPlay :
                   IF lastOp'.present[v]
                   THEN CountActive(activeNotes_', v, p)
                           = CountActive(activeNotes_, v, p)
                             + CountEvents(midiBuffers'[v], "on", p)
                             - CountEvents(midiBuffers'[v], "off", p)
                   ELSE /\ midiBuffers'[v] = <<>>
                        /\ CountActive(activeNotes_', v, p) <= CountActive(activeNotes_, v, p)
       /\ (lastOp'.name = "process" /\ ~ProcessRuns)
             => activeNotes_' = activeNotes_ /\ midiBuffers' = EmptyBuffers
       /\ lastOp'.name \in {"stop", "setPositionBeats"} => activeNotes_' = <<>>
       /\ lastOp'.name \notin {"process", "stop", "setPositionBeats"}
             => activeNotes_' = activeNotes_
      ]_vars

\* a block has run that gave a voice a note-on and a note-off and left a
\* note active
C31_Witness ==
    /\ lastOp.name = "process"
    /\ activeNotes_ # <<>>
    /\ \E v \in Voices :
          /\ \E k \in 1 .. Len(midiBuffers[v]) : midiBuffers[v][k].type = "on"
          /\ \E k \in 1 .. Len(midiBuffers[v]) : midiBuffers[v][k].type = "off"

----------------------------------------------------------------------------
(* C32  The cursor stays inside the loop *)

\* C32: after every process() call made while the transport plays, the
\* cursor is at least 0 and less than the loop end.
C32_CursorInLoop ==
    (lastOp.name = "process" /\ playing_ /\ project_)
        => 0 <= currentBeat_ /\ currentBeat_ < GetLoopEndBeat

----------------------------------------------------------------------------
(* C33  Every note is triggered once per pass *)

\* the beats (in ticks) the transport passes in a block of numSamples
\* samples that starts at the cursor: [s, e), or [s, loopEnd) and then
\* [0, e - loopEnd) when the block reaches the loop end; the second
\* component tells the two segments apart
BeatsPassed(numSamples) ==
    LET e == BlockEnd(numSamples)
        L == GetLoopEndBeat
    IN  IF e >= L
        THEN {<<g, 0>> : g \in currentBeat_ .. (L - 1)}
             \cup {<<g, 1>> : g \in 0 .. (e - L - 1)}
        ELSE {<<g, 0>> : g \in currentBeat_ .. (e - 1)}

\* how often the block passes the pattern position of note n of voice v
PassesOver(v, n, numSamples) ==
    Cardinality({g \in BeatsPassed(numSamples) : g[1] % PatternLength(v) = n.startBeat})

\* C33: a running block that starts inside the loop gives each audible
\* voice, for each pitch, as many note-ons as the block passes pattern
\* positions of notes of that pitch, at most one per note, and leaves the
\* cursor at the end of the beats passed, so that consecutive blocks of any
\* sizes pass every position once per pass and trigger every note once.
C33_ExactlyOnce ==
    [][(/\ lastOp'.name = "process" /\ ProcessRuns
        /\ 0 <= currentBeat_ /\ currentBeat_ < GetLoopEndBeat)
       => LET numSamples == lastOp'.arg
              e == BlockEnd(numSamples)
          IN  /\ currentBeat_' = IF e >= GetLoopEndBeat THEN e - GetLoopEndBeat ELSE e
              /\ \A v \in Voices :
                    (Audible(v) /\ lastOp'.present[v])
                    => /\ \A i \in 1 .. Len(NotesOf(v)) :
                             PassesOver(v, NotesOf(v)[i], numSamples) <= 1
                       /\ \A p \in PitchesInPlay :
                             CountEvents(midiBuffers'[v], "on", p)
                                = Cardinality({i \in 1 .. Len(NotesOf(v)) :
                                      /\ NotesOf(v)[i].pitch = p
                                      /\ PassesOver(v, NotesOf(v)[i], numSamples) = 1})
      ]_vars

\* a block has crossed the loop end with the note at Bar - 1 before it and
\* the note at 0 after it: each got its one note-on
C33_Witness ==
    /\ lastOp.name = "process" /\ lastOp.wrapped
    /\ playing_ /\ project_
    /\ 0 < currentBeat_ /\ currentBeat_ < TicksPerBeat
    /\ CountEvents(midiBuffers[0], "on", 62) = 1
    /\ CountEvents(midiBuffers[0], "on", 60) = 1

----------------------------------------------------------------------------
(* C34  Note-offs reach the synth *)

\* C34: a note-on delivered to a voice's synth is followed by a delivered
\* note-off: the sequencer drops an active note of a voice with a synth
\* only in a call that hands the synth the note-off, either in the buffer
\* of a block in which the voice is rendered or by releaseNote.
C34_NoteOffDelivered ==
    [][\A v \in Voices :
          synths_[v] =>
             /\ (lastOp'.name = "engineProcess" /\ initialized_)
                   => ((\E k \in 1 .. Len(midiBuffers'[v]) : midiBuffers'[v][k].type = "off")
                          => \E i \in 1 .. Len(output'.mix) : output'.mix[i].voice = v)
             /\ lastOp'.name # "engineProcess"
                   => \A p \in PitchesInPlay :
                         CountActive(activeNotes_', v, p) < CountActive(activeNotes_, v, p)
                            => ReleaseCalls(synthCalls', v, p) > 0
      ]_vars

----------------------------------------------------------------------------
(* C35  Back-to-back notes *)

\* C35: when a voice's note j starts at the beat b where a sounding note of
\* the same pitch ends, the buffer of the block that contains b holds the
\* note-off of the first note before the note-on of note j.
C35_OffBeforeOn ==
    [][(lastOp'.name = "process" /\ ProcessRuns /\ ~lastOp'.wrapped) =>
          \A v \in Voices : \A j \in 1 .. Len(NotesOf(v)) :
              LET n   == NotesOf(v)[j]
                  b   == n.startBeat
                  bps == BeatsPerSample(project.tempo, SampleRate)
              IN  (/\ Audible(v) /\ lastOp'.present[v]
                   /\ PatternLength(v) = GetLoopEndBeat
                   /\ currentBeat_ <= b /\ b < BlockEnd(lastOp'.arg)
                   /\ \E k \in 1 .. Len(activeNotes_) :
                         activeNotes_[k] = ActiveNote(v, n.pitch, b))
                  => \E k1, k2 \in 1 .. Len(midiBuffers'[v]) :
                        /\ k1 < k2
                        /\ midiBuffers'[v][k1].type = "off"
                        /\ midiBuffers'[v][k1].pitch = n.pitch
                        /\ midiBuffers'[v][k2] =
                              NoteOn(n.pitch, n.velocity,
                                     Clamp(TruncDiv(b - currentBeat_, bps), 0,
                                           lastOp'.arg - 1))
      ]_vars

----------------------------------------------------------------------------
(* C36  A seek is not lost *)

\* C36: when setPositionBeats(b) was the call that began last and it has
\* returned, and no process() call is in flight, the cursor is b: the next
\* block starts at beat b, also when a block was in flight during the call.
C36_SeekNotLost ==
    (UiIdle /\ AudioIdle /\ lastOp.name = "setPositionBeats")
        => currentBeat_ = lastOp.arg

----------------------------------------------------------------------------
(* The pattern models and the project's patterns: edits of a model, loads  *)
(* of the project, and the copy of the project into the models.            *)

\* PatternModel::clear: removeChild until no child is left, each followed
\* by the listener's saveToPattern
ClearModel(v) ==
    /\ query' = [Unasked(query) EXCEPT !.tree[v] = <<>>]
    /\ project' = IF query.tree[v] = <<>> THEN project
                  ELSE [project EXCEPT !.voices[v].pattern = AutoSyncPattern(query, v, <<>>)]
    /\ synthCalls' = <<>>
    /\ midiBuffers' = EmptyBuffers
    /\ voiceChanged' = <<>>
    /\ lastOp' = Op("clear", v)
    /\ output' = NoOutput
    /\ UNCHANGED <<project_, synths_, playing_, currentBeat_, activeNotes_,
                   audio, ui, disk, activeVoice_, hostVars>>

\* PatternModel::setSwing: setProperty, and the property listener's
\* saveToPattern when the value changes
SetModelSwing(v, swing) ==
    /\ query' = [Unasked(query) EXCEPT !.swing[v] = swing]
    /\ project' = IF swing = query.swing[v] THEN project
                  ELSE [project EXCEPT !.voices[v].pattern =
                           AutoSyncPattern(query', v, query.tree[v])]
    /\ synthCalls' = <<>>
    /\ midiBuffers' = EmptyBuffers
    /\ voiceChanged' = <<>>
    /\ lastOp' = Op("setSwing", v)
    /\ output' = NoOutput
    /\ UNCHANGED <<project_, synths_, playing_, currentBeat_, activeNotes_,
                   audio, ui, disk, activeVoice_, hostVars>>

\* SurgeBoxEngine::syncPatternModelsFromProject
SyncPatternModelsFromProject ==
    /\ project' = SyncedProject(project, query)
    /\ query' = SyncedModels(project, Unasked(query))
    /\ synthCalls' = <<>>
    /\ midiBuffers' = EmptyBuffers
    /\ voiceChanged' = <<>>
    /\ lastOp' = Op("syncPatternModelsFromProject", 0)
    /\ output' = NoOutput
    /\ UNCHANGED <<project_, synths_, playing_, currentBeat_, activeNotes_,
                   audio, ui, disk, activeVoice_, hostVars>>

\* the states a host hands to setStateInformation: the project as it was
\* first saved, and that of another session
HostStates ==
    {FileOf(PrintXML(ProjectToXML(InitProject))),
     FileOf(PrintXML(ProjectToXML(SingleNoteProject)))}

\* the model of voice 1 edited, host states loaded, and the project copied
\* into the models
NextSync ==
    \/ \E start \in {0, TicksPerBeat} : EditAddNote(1, start, 62)
    \/ RemoveNote(1, 0)
    \/ MoveNote(1, 0, 2 * TicksPerBeat, 64)
    \/ ResizeNote(1, 0, 2 * TicksPerBeat)
    \/ ClearModel(1)
    \/ \E b \in 1 .. MaxBars : SetBars(1, b)
    \/ \E swing \in {0, 1} : SetModelSwing(1, swing)
    \/ \E file \in HostStates : WriteFile(file)
    \/ LoadFromFile(1)
    \/ SyncPatternModelsFromProject

SpecSync == InitEngine /\ [][NextSync]_vars

----------------------------------------------------------------------------
(* C38  The models and the project agree *)

\* the notes, bars and swing a model holds, as a pattern holds them
ModelPattern(v) == AutoSyncPattern(query, v, query.tree[v])

\* C38: after any sequence of model edits and project loads, every voice's
\* project pattern and its model hold the same set of notes, the same bars
\* and the same swing.
C38_ModelProjectConsistent ==
    \A v \in Voices :
        /\ ElementsOf(project.voices[v].pattern.notes) = ElementsOf(ModelPattern(v).notes)
        /\ project.voices[v].pattern.bars = query.bars[v]
        /\ project.voices[v].pattern.swing = query.swing[v]

----------------------------------------------------------------------------
(* C39  syncPatternModelsFromProject copies the project into the models *)

\* C39: a call of syncPatternModelsFromProject leaves every voice's project
\* pattern as it was, and leaves in the voice's model the notes, bars and
\* swing that pattern held before the call, whatever the model held.
C39_SyncCopiesProject ==
    [][lastOp'.name = "syncPatternModelsFromProject" =>
          \A v \in Voices :
              /\ project'.voices[v].pattern = project.voices[v].pattern
              /\ query'.tree[v] = LoadFromPattern(project.voices[v].pattern.notes)
              /\ query'.bars[v] = project.voices[v].pattern.bars
              /\ query'.swing[v] = project.voices[v].pattern.swing]_vars

----------------------------------------------------------------------------
(* A model edited on the message thread while the audio thread plays.  The *)
(* listener's saveToPattern writes the pattern the sequencer reads, one    *)
(* statement at a time, and nothing orders the two threads.                *)

\* PatternModel::addNote up to the listener's pattern.notes.clear():
\* appendChild, then saveToPattern's bars, swing and clear
U_AddNoteBegin(v, start, p) ==
    /\ UiIdle
    /\ Len(query.tree[v]) < MaxNotes
    /\ LET children == Append(query.tree[v], NoteTree(start, TicksPerBeat, p, 100))
       IN  /\ query' = [Unasked(query) EXCEPT !.tree[v] = children]
           /\ ui' = [pc |-> "pushBack", voice |-> v,
                     pre |-> project.voices[v].pattern.notes,
                     post |-> SaveToPattern(children)]
    /\ project' = [project EXCEPT !.voices[v].pattern = AutoSyncPattern(query, v, <<>>)]
    /\ synthCalls' = <<>>
    /\ lastOp' = UiOp("addNote", v)
    /\ output' = NoOutput
    /\ UNCHANGED <<project_, synths_, playing_, currentBeat_, activeNotes_,
                   midiBuffers, audio,
                   engineVars>>

\* saveToPattern: one turn of the loop, the push_back of the next child
U_PushBack ==
    /\ ui.pc = "pushBack"
    /\ LET v     == ui.voice
           notes == project.voices[v].pattern.notes
           child == query.tree[v][Len(notes) + 1]
       IN  /\ project' = [project EXCEPT !.voices[v].pattern.notes =
                             Append(notes, MIDINote(child[1], child[2],
                                                    child[3] % 256, child[4] % 256))]
           /\ ui' = [ui EXCEPT !.pc = IF Len(notes) + 1 = Len(query.tree[v])
                                      THEN "sortNotes" ELSE "pushBack"]
    /\ output' = NoOutput
    /\ UNCHANGED <<project_, synths_, playing_, currentBeat_, activeNotes_,
                   midiBuffers, synthCalls, lastOp, audio, query,
                   engineVars>>

\* saveToPattern's pattern.sortNotes(), then addNote's sortNotes()
U_SortNotes ==
    /\ ui.pc = "sortNotes"
    /\ project' = [project EXCEPT !.voices[ui.voice].pattern.notes = SortNotes(@)]
    /\ \E s \in SortedTrees(query.tree[ui.voice]) :
          query' = [query EXCEPT !.tree[ui.voice] = s]
    /\ ui' = Idle
    /\ output' = NoOutput
    /\ UNCHANGED <<project_, synths_, playing_, currentBeat_, activeNotes_,
                   midiBuffers, synthCalls, lastOp, audio,
                   engineVars>>

\* the audio thread's blocks, the transport started and moved to the end
\* of the loop, and notes added to the model of voice 0
NextConcEdit ==
    \/ \E n \in BlockSizes : A_Begin(n)
    \/ A_Load
    \/ A_Trigger1
    \/ A_Release1
    \/ A_Rebase
    \/ A_Trigger2
    \/ A_Release2
    \/ A_Store
    \/ U_Play
    \/ U_SeekBegin(Bar - 2)
    \/ U_Release
    \/ U_Clear
    \/ U_SeekStore
    \/ \E start \in {TicksPerBeat, 2 * TicksPerBeat} : U_AddNoteBegin(0, start, 64)
    \/ U_PushBack
    \/ U_SortNotes

SpecConcEdit == InitConc /\ [][NextConcEdit]_vars

----------------------------------------------------------------------------
(* C37  Pattern edits are atomic for playback *)

\* the edit of a model is between its clear of the pattern and its return
EditInFlight == ui.pc \in {"pushBack", "sortNotes"}

\* C37: the first trigger call of a block that runs while a model is being
\* edited triggers from the complete note list of before or after the edit:
\* every note that both lists hold and that starts inside the part of the
\* block before the pattern end gets its note-on.
C37_EditAtomicForPlayback ==
    [][(audio.pc = "trigger1" /\ audio'.pc = "release1" /\ EditInFlight) =>
          LET v == ui.voice
          IN  \A n \in ElementsOf(ui.pre) \cap ElementsOf(ui.post) :
                  (/\ Audible(v)
                   /\ 0 <= audio.startBeat /\ audio.startBeat < PatternLength(v)
                   /\ audio.startBeat <= n.startBeat
                   /\ n.startBeat < audio.endBeat
                   /\ n.startBeat < PatternLength(v))
                  => \E k \in 1 .. Len(midiBuffers'[v]) :
                        /\ midiBuffers'[v][k].type = "on"
                        /\ midiBuffers'[v][k].pitch = n.pitch
      ]_vars

----------------------------------------------------------------------------
(* The editor: the piano roll's mouse and key handlers and the measure     *)
(* buttons, on the model of the active voice.  The grid is one beat        *)
(* (setGridSize(1.0)); the pointer stays over the pattern.                 *)

gridSize_ == TicksPerBeat

\* PatternModel::lengthInBeats of the active model
LengthInBeats == query.bars[activeVoice_] * BeatsPerBar * TicksPerBeat

\* the children of `tree` at the indices i (from 1) that satisfy keep
KeptChildren(tree, keep(_)) ==
    LET kept == {i \in 1 .. Len(tree) : keep(i)}
    IN  [k \in 1 .. Cardinality(kept) |->
            tree[CHOOSE i \in kept : Cardinality({j \in kept : j < i}) = k - 1]]

\* PianoRollWidget::removeOverlappingNotes: every child of the pitch whose
\* span meets [startBeat, endBeat) is removed, but for the one at excludeIndex
RemoveOverlappingNotes(tree, pitch, startBeat, endBeat, excludeIndex) ==
    LET keep(i) == \/ i - 1 = excludeIndex
                   \/ tree[i][3] # pitch
                   \/ ~(tree[i][1] < endBeat /\ tree[i][1] + tree[i][2] > startBeat)
    IN  KeptChildren(tree, keep)

\* PatternModel::findNoteContaining with the tolerance of 0.05 beat, less
\* than a tick: the first child of the pitch whose span holds the beat, or -1
FindNoteContaining(tree, beat, pitch) ==
    LET found == {i \in 1 .. Len(tree) :
                     /\ tree[i][3] = pitch
                     /\ beat >= tree[i][1]
                     /\ beat < tree[i][1] + tree[i][2]}
    IN  IF found = {} THEN -1 ELSE (CHOOSE i \in found : \A j \in found : i <= j) - 1

\* PatternModel::addNote for each of the notes in turn: the trees it can leave
RECURSIVE AddNotes(_, _)
AddNotes(tree, notes) ==
    IF notes = <<>>
    THEN {tree}
    ELSE UNION {AddNotes(s, Tail(notes)) : s \in SortedTrees(Append(tree, Head(notes)))}

\* the paste loop of keyPressed: for each note of the clipboard,
\* removeOverlappingNotes and addNote
RECURSIVE PasteNotes(_, _, _)
PasteNotes(tree, clipboard, pastePosition) ==
    IF clipboard = <<>>
    THEN {tree}
    ELSE LET c         == Head(clipboard)
             startBeat == pastePosition + c[1]
             cleared   == RemoveOverlappingNotes(tree, c[3], startBeat, startBeat + c[2], -1)
         IN  UNION {PasteNotes(s, Tail(clipboard), pastePosition) :
                       s \in SortedTrees(Append(cleared, NoteTree(startBeat, c[2], c[3], c[4])))}

\* the active model left with these children and bars, and the pattern the
\* listeners' saveToPattern leaves
EditActiveModel(tree, bars, name) ==
    /\ query' = [Unasked(query) EXCEPT !.tree[activeVoice_] = tree,
                                       !.bars[activeVoice_] = bars]
    /\ project' = [project EXCEPT !.voices[activeVoice_].pattern =
                      AutoSyncPattern(query', activeVoice_, tree)]
    /\ synthCalls' = <<>>
    /\ midiBuffers' = EmptyBuffers
    /\ voiceChanged' = <<>>
    /\ lastOp' = Op(name, 0)
    /\ output' = NoOutput
    /\ UNCHANGED <<project_, synths_, playing_, currentBeat_, activeNotes_,
                   audio, ui, disk, activeVoice_, hostVars>>

\* PianoRollWidget::mouseDown on the grid where no note is (left button),
\* and mouseDrag in drawing mode, which does not look for a note there
DrawNote(quantizedBeat, pitch, dragging) ==
    LET tree    == query.tree[activeVoice_]
        cleared == RemoveOverlappingNotes(tree, pitch, quantizedBeat,
                                          quantizedBeat + gridSize_, -1)
    IN  /\ quantizedBeat < LengthInBeats
        /\ dragging \/ FindNoteContaining(tree, quantizedBeat, pitch) < 0
        /\ Len(cleared) < MaxEditNotes
        /\ \E s \in SortedTrees(Append(cleared, NoteTree(quantizedBeat, gridSize_, pitch, 100))) :
              EditActiveModel(s, query.bars[activeVoice_], "drawNote")

\* mouseDown on the note at the index, then mouseDrag in ResizeEnd mode to
\* the beat: the overlapped notes removed, then resizeNote at the index the
\* drag began with
ResizeDrag(index, quantizedBeat) ==
    LET tree        == query.tree[activeVoice_]
        startBeat   == tree[index + 1][1]
        newEnd      == IF startBeat > quantizedBeat THEN startBeat + gridSize_
                       ELSE quantizedBeat + gridSize_
        newDuration == newEnd - startBeat
        cleared     == RemoveOverlappingNotes(tree, tree[index + 1][3], startBeat, newEnd, index)
        resized     == IF index < Len(cleared)
                       THEN [cleared EXCEPT ![index + 1] =
                                NoteTree(@[1], newDuration, @[3], @[4])]
                       ELSE cleared
    IN  /\ index >= 0 /\ index < Len(tree)
        /\ quantizedBeat < LengthInBeats
        /\ newDuration # tree[index + 1][2]
        /\ EditActiveModel(resized, query.bars[activeVoice_], "resizeDrag")

\* PianoRollWidget::addNoteAtCurrentStep with the step cursor at the beat
AddNoteAtCurrentStep(stepPosition_, pitch, velocity) ==
    LET tree    == query.tree[activeVoice_]
        cleared == RemoveOverlappingNotes(tree, pitch, stepPosition_,
                                          stepPosition_ + gridSize_, -1)
    IN  /\ stepPosition_ < LengthInBeats
        /\ Len(cleared) < MaxEditNotes
        /\ \E s \in SortedTrees(Append(cleared, NoteTree(stepPosition_, gridSize_, pitch, velocity))) :
              EditActiveModel(s, query.bars[activeVoice_], "addNoteAtCurrentStep")

\* the clipboards Cmd+C leaves: notes relative to the earliest one copied
Clipboards ==
    { << <<0, gridSize_, 60, 100>> >>,
      << <<0, 2 * gridSize_, 60, 100>>, <<gridSize_, gridSize_, 62, 100>> >> }

\* keyPressed, Cmd+V with step record off: the paste at beat 0
Paste(clipboard) ==
    \E s \in PasteNotes(query.tree[activeVoice_], clipboard, 0) :
        /\ Len(s) <= MaxEditNotes
        /\ EditActiveModel(s, query.bars[activeVoice_], "paste")

\* SurgeBoxEditor::doubleMeasures: setBars, then addNote of every note's
\* clone one pattern length later
DoubleMeasures ==
    LET tree   == query.tree[activeVoice_]
        clones == [i \in 1 .. Len(tree) |->
                      NoteTree(tree[i][1] + LengthInBeats, tree[i][2], tree[i][3], tree[i][4])]
    IN  /\ 2 * query.bars[activeVoice_] <= MaxBars
        /\ Len(tree) <= MaxEditNotes
        /\ \E s \in AddNotes(tree, clones) :
              EditActiveModel(s, 2 * query.bars[activeVoice_], "doubleMeasures")

\* the notes halveMeasures and subtractMeasure leave: those that start
\* before the new length
StartingBefore(tree, newLength) ==
    LET keep(i) == tree[i][1] < newLength
    IN  KeptChildren(tree, keep)

\* SurgeBoxEditor::halveMeasures
HalveMeasures ==
    LET newBars == query.bars[activeVoice_] \div 2
    IN  /\ query.bars[activeVoice_] > 1
        /\ EditActiveModel(StartingBefore(query.tree[activeVoice_],
                                          newBars * BeatsPerBar * TicksPerBeat),
                           newBars, "halveMeasures")

\* SurgeBoxEditor::addMeasure
AddMeasure ==
    /\ query.bars[activeVoice_] + 1 <= MaxBars
    /\ EditActiveModel(query.tree[activeVoice_], query.bars[activeVoice_] + 1, "addMeasure")

\* SurgeBoxEditor::subtractMeasure
SubtractMeasure ==
    LET newBars == query.bars[activeVoice_] - 1
    IN  /\ query.bars[activeVoice_] > 1
        /\ EditActiveModel(StartingBefore(query.tree[activeVoice_],
                                          newBars * BeatsPerBar * TicksPerBeat),
                           newBars, "subtractMeasure")

\* the editor opened on a new project: the engine initialized, the active
\* voice's pattern empty and set to one bar
InitEditor ==
    /\ project = [Reset(0) EXCEPT !.voices[0].pattern.bars = 1]
    /\ project_ = TRUE
    /\ synths_ = AllVoices
    /\ playing_ = FALSE
    /\ currentBeat_ = 0
    /\ activeNotes_ = <<>>
    /\ midiBuffers = EmptyBuffers
    /\ synthCalls = <<>>
    /\ lastOp = NoOp
    /\ audio = Idle
    /\ ui = Idle
    /\ query = [NoQuery EXCEPT !.tree = [v \in Voices |-> <<>>],
                              !.bars = [v \in Voices |-> IF v = 0 THEN 1 ELSE 4]]
    /\ disk = NoFile
    /\ activeVoice_ = 0
    /\ voiceChanged = <<>>
    /\ initialized_ = TRUE
    /\ onVoiceChanged = TRUE
    /\ onPlayheadMoved = FALSE
    /\ output = NoOutput

EditorBeats == {0, Bar - TicksPerBeat, Bar}

EditorPitches == {60, 62}

NextEditor ==
    \/ \E beat \in EditorBeats, pitch \in EditorPitches, dragging \in BOOLEAN :
          DrawNote(beat, pitch, dragging)
    \/ \E index \in 0 .. MaxEditNotes, beat \in EditorBeats : ResizeDrag(index, beat)
    \/ \E beat \in EditorBeats, pitch \in EditorPitches : AddNoteAtCurrentStep(beat, pitch, 100)
    \/ \E clipboard \in Clipboards : Paste(clipboard)
    \/ DoubleMeasures
    \/ HalveMeasures
    \/ AddMeasure
    \/ SubtractMeasure

SpecEditor == InitEditor /\ [][NextEditor]_vars

----------------------------------------------------------------------------
(* C40  The editor leaves no overlapping notes of one pitch *)

\* the spans of notes i and j of the sequence overlap
SpansOverlap(notes, i, j) ==
    /\ notes[i].startBeat < notes[j].startBeat + notes[j].duration
    /\ notes[j].startBeat < notes[i].startBeat + notes[i].duration

\* C40: starting from an empty pattern, after any sequence of editor
\* operations no two notes of the same pitch in the pattern have
\* overlapping spans [startBeat, startBeat + duration).
C40_NoOverlapAfterEditing ==
    LET notes == project.voices[activeVoice_].pattern.notes
    IN  \A i, j \in 1 .. Len(notes) :
            (i < j /\ notes[i].pitch = notes[j].pitch) => ~SpansOverlap(notes, i, j)
====
